---- MODULE Spec2Model ----
(***************************************************************************)
(* A model of the batch scheduling core of ELFI: the BatchHandler of       *)
(* elfi/client.py, the inference loop of elfi/methods/parameter_inference, *)
(* the Rejection merge, get_sub_seed of elfi/utils.py and load_data.       *)
(*                                                                         *)
(* Each component has its own specification over the shared variables:     *)
(*   Spec       the BatchHandler driven by arbitrary submit / wait_next /  *)
(*              reset calls, with worker tasks completing in any order     *)
(*   SpecSeed   get_sub_seed called on one RandomState object              *)
(*   SpecRej    Rejection.set_objective / update / extract_result fed with *)
(*              arbitrary batches                                          *)
(*   SpecLoad   load_data and the execution of the loaded net, from        *)
(*              BatchHandler.compute and ElfiModel.generate                *)
(*   SpecInfer  infer() of Rejection, SMC and BayesianOptimization: the    *)
(*              iterate loop over the BatchHandler while the workers       *)
(*              complete tasks in any order                                *)
(*   SpecInferFair  the runs of SpecInfer by a fixed objective in which    *)
(*              no task fails, under weak fairness of the loop's steps     *)
(*   SpecRejLong  Rejection by threshold followed batch by batch           *)
(*   SpecReinfer, SpecBO  BayesianOptimization run again, and the          *)
(*              updates of its surrogate                                   *)
(*   SpecRvs, SpecPop, SpecSample, SpecNet, SpecCopy  the draws of the     *)
(*              proposal, the populations of SMC, BOLFI.sample, the        *)
(*              loading of the compiled net, the computation context       *)
(***************************************************************************)
EXTENDS Integers, Sequences, FiniteSets, TLC

\* ----------------------------------------------------------------- bounds
\* the number of client tasks one behaviour may create
MaxSubmits == 4
\* the largest next_index handed to BatchHandler.reset
MaxResetIndex == 3
\* the argument high of get_sub_seed: sub seeds are drawn from 0..SeedHigh-1
SeedHigh == 2
\* the number of values of the generator's output stream that are modelled
MaxDraws == 4
\* the number of get_sub_seed calls one behaviour records
MaxSeedCalls == 2
\* discrepancies take the values 1..MaxDisc
MaxDisc == 2
\* n_samples ranges over 1..MaxSamples
MaxSamples == 2
\* batch_size ranges over 1..MaxBatchSize
MaxBatchSize == 2
\* max_parallel_batches ranges over 1..MaxParallel
MaxParallel == 2
\* the number of simulations (rows) one Rejection object is fed
MaxRejSim == 3
\* the number of batches a Rejection run by threshold is followed for
MaxLongBatches == 50
\* one infer() submits at most MaxInferSubmits batches
MaxInferSubmits == 3
\* BayesianOptimization: n_evidence is asked for up to MaxEvidence, with up to
\* MaxInitialEvidence initial evidence and update_interval up to MaxUpdateInterval
MaxEvidence == 3
MaxInitialEvidence == 1
MaxUpdateInterval == 1
\* BayesianOptimization.update called directly: up to MaxBOUpdates calls, with
\* initial evidence up to MaxBOInitial and update_interval up to MaxBOInterval
MaxBOUpdates == 4
MaxBOInitial == 3
MaxBOInterval == 3
\* GMDistribution.rvs draws up to MaxRvsSize rows and is followed for MaxRvsTrials
\* rounds of its loop
MaxRvsSize == 2
MaxRvsTrials == 101
\* BOLFI.sample runs up to MaxChains chains with up to MaxCandidates candidate
\* initial points
MaxChains == 3
MaxCandidates == 3
\* the client reports 0..MaxCores cores
MaxCores == 2
\* SMC thresholds lists have 1..MaxRounds entries
MaxRounds == 2
\* batch indices 0..MaxLoadIndex are loaded
MaxLoadIndex == 1
\* node outputs, seeds and observed data take the values 0..MaxValue
MaxValue == 1

\* np.inf: larger than every discrepancy
Inf == 1000

VARIABLES
    next_batch_index,   \* BatchHandler._next_batch_index
    pending_batches,    \* BatchHandler._pending_batches, in insertion order: <<[bi, id]>>
    client_tasks,       \* task ids the client holds (submitted, not removed, not fetched)
    client_ready,       \* task ids whose result is ready
    next_task_id,       \* the id the client gives to the next task
    retired,            \* history: the batch indices wait_next has returned
    last_op,            \* history: the last BatchHandler call and what it did
    alloc_base,         \* history: the value reset last assigned to next_index (0 at start)
    alloc_count,        \* history: the number of submits since that assignment
    retired_live,       \* history: indices returned by wait_next and not since covered
                        \*          by a reset(k) with k <= index
    task_failed,        \* task ids whose execution raised: client.get raises for them
    cancelled,          \* history: task ids handed to client.remove_task
    alloc_task,         \* history: batch index -> task id of the last submit of the index
    callback_log,       \* history: the context.callback calls, <<[bi, id]>>
    rs_stream,          \* the output stream of RandomState(seed): value n is rs_stream[n]
    rs_pos,             \* the state of the RandomState object: how many values it has produced
    seed_calls,         \* history: the get_sub_seed calls made, in order
    batch_size,         \* ComputationContext.batch_size of the inference object
    max_parallel_batches, \* ParameterInference.max_parallel_batches
    rej_objective,      \* Rejection.objective
    rej_state,          \* Rejection.state
    rej_uninit,         \* what np.empty leaves in a new sample array
    rej_rows,           \* history: the discrepancies received, in order; the
                        \*          parameter value of row k is k
    ctx_seed,           \* ComputationContext.seed
    ctx_observed,       \* ComputationContext.observed (of the one observed node)
    pool_stores,        \* the node names the context's pool stores
    pool_batches,       \* the pool: batch index -> (node name -> stored value)
    load_last,          \* history: the last load_data + execute, with the pool
                        \*          batch it was given
    inf_method,         \* the class of the inference object
    inf_pc,             \* where infer() is: "new", "iterate" (the submit loop),
                        \* "wait" (blocked in wait_next), "done", "objective"
                        \* (set_objective was called after an infer), "raised" (an
                        \* exception left infer)
    inf_start,          \* history: the inference object as set_objective left it
    inf_prepared,       \* what prepare_new_batch returned for each pending batch
    inf_consumed,       \* history: the batches handed to update, in order
    smc_objective,      \* SMC.objective
    smc_state,          \* SMC.state
    smc_populations,    \* SMC._populations (n_batches of each)
    smc_draws,          \* draws made from SMC._round_random_state
    bo_config,          \* BayesianOptimization: what __init__ fixed
    bo_objective,       \* BayesianOptimization.objective
    bo_state,           \* BayesianOptimization.state, and the evidence in the GP
                        \* with the history of target_model.update calls
    bo_acquire_calls,   \* history: the acquisition_method.acquire calls
    model_ctx,          \* ElfiModel.computation_context of the original model and of
                        \* its copy: the attributes of the context object, observed
                        \* being a reference to a dict
    obs_heap,           \* the dict objects: reference -> (node name -> value)
    copy_snapshot,      \* history: the original's context, with the contents of its
                        \* observed dict, when the model was copied
    ctor,               \* the constructor call of the inference method: its
                        \* arguments and what came of it
    gm_rvs,             \* a GMDistribution.rvs call: its arguments, its local
                        \* variables and where it is
    net_store,          \* the compiled net of a BatchHandler as an object: the
                        \* attribute dicts of its nodes are in a heap, where those of
                        \* the net loaded last are too; with the loads made so far
    bolfi,              \* a BOLFI.sample call: its arguments, the local variables of
                        \* its dispatch loop and where it is
    smc_pop             \* SMC and its populations with their particles: SMC._populations,
                        \* the last _compute_weights_and_cov call and whether an
                        \* exception left SMC

bhvars == <<next_batch_index, pending_batches, client_tasks, client_ready, next_task_id>>
histvars == <<retired, last_op, alloc_base, alloc_count, retired_live, task_failed,
              cancelled, alloc_task, callback_log>>
seedvars == <<rs_stream, rs_pos, seed_calls>>
ctxvars == <<batch_size, max_parallel_batches>>
rejvars == <<rej_objective, rej_state, rej_uninit, rej_rows>>
loadvars == <<ctx_seed, ctx_observed, pool_stores, pool_batches, load_last>>
smcvars == <<smc_objective, smc_state, smc_populations, smc_draws>>
bovars == <<bo_config, bo_objective, bo_state, bo_acquire_calls>>
infvars == <<inf_method, inf_pc, inf_start, inf_prepared, inf_consumed, smcvars,
             bovars>>
copyvars == <<model_ctx, obs_heap, copy_snapshot, ctor>>
callvars == <<gm_rvs, smc_pop, bolfi, net_store>>
vars == <<bhvars, histvars, seedvars, ctxvars, rejvars, loadvars, infvars, copyvars,
          callvars>>

\* what the operations of one component leave alone
frame_BatchHandler == <<seedvars, ctxvars, rejvars, loadvars, infvars, copyvars,
    callvars>>
frame_get_sub_seed == <<bhvars, histvars, ctxvars, rejvars, loadvars, infvars, copyvars,
    callvars>>
frame_Rejection == <<seedvars, ctxvars, loadvars, infvars, copyvars, callvars>>
frame_load_data == <<bhvars, histvars, seedvars, ctxvars, rejvars, infvars, copyvars,
    callvars>>
frame_infer == <<seedvars, ctxvars, loadvars, copyvars, callvars>>
frame_copy == <<bhvars, histvars, seedvars, ctxvars, rejvars, loadvars, infvars,
                callvars>>
frame_calls == <<bhvars, histvars, seedvars, ctxvars, rejvars, loadvars, infvars,
                 copyvars>>

\* ------------------------------------------------------------ sequences
RemoveAt(s, i) == SubSeq(s, 1, i - 1) \o SubSeq(s, i + 1, Len(s))

Range(s) == {s[i] : i \in 1..Len(s)}

\* ----------------------------------------------------------- the client
\* ClientBase is abstract in elfi/client.py; the task store behind it follows the
\* contract of the client: submit returns a new handle at once, is_ready polls,
\* get blocks until the result is there, remove_task forgets the task.
client_is_ready(id) == id \in client_ready

\* --------------------------------------------------------- BatchHandler
pending_indices == [i \in 1..Len(pending_batches) |-> pending_batches[i].bi]

has_pending == Len(pending_batches) > 0

num_pending == Len(pending_batches)

has_ready_never == FALSE

has_ready == \E i \in 1..Len(pending_batches) : client_is_ready(pending_batches[i].id)

num_ready == next_batch_index - Len(pending_batches)

NoOp == [op |-> "none", k |-> 0, id |-> 0, pre |-> <<>>, removed |-> <<>>, raised |-> FALSE]

\* The position OrderedDict.popitem(last=False) takes its item from.
popitem_position_last(p) == Len(p)

popitem_position(p) == 1

\* The index submit leaves in _next_batch_index.
submit_next_index_same(i) == i

submit_next_index(i) == i + 1

\* The for loop of reset over the live items() view of the OrderedDict. The
\* iterator of a CPython OrderedDict has already stepped to the successor when it
\* yields an item, and checks for a mutation when asked for the next one: popping
\* the item just yielded ends the loop normally when it was the last item and
\* raises RuntimeError ("OrderedDict mutated during iteration") otherwise.
\* self._pending_batches.pop(batch_index) of the loop
reset_pop_keeps(p, pos) == p

reset_pop(p, pos) == RemoveAt(p, pos)

RECURSIVE reset_loop(_, _, _)
reset_loop(p, pos, k) ==
    IF pos > Len(p)
    THEN [pending |-> p, removed |-> <<>>, raised |-> FALSE]
    ELSE IF p[pos].bi >= k
         THEN [pending |-> reset_pop(p, pos),
               removed |-> <<p[pos]>>,
               raised |-> pos < Len(p)]
         ELSE reset_loop(p, pos + 1, k)

\* BatchHandler.submit
BH_submit ==
    /\ next_task_id < MaxSubmits
    /\ LET batch_index == next_batch_index
           task_id == next_task_id
           at == {i \in 1..Len(pending_batches) : pending_batches[i].bi = batch_index}
       IN /\ next_batch_index' = submit_next_index(next_batch_index)
          /\ next_task_id' = next_task_id + 1
          /\ client_tasks' = client_tasks \cup {task_id}
          /\ client_ready' = client_ready
          \* an existing key of an OrderedDict keeps its position
          /\ pending_batches' =
                IF at = {}
                THEN Append(pending_batches, [bi |-> batch_index, id |-> task_id])
                ELSE [i \in 1..Len(pending_batches) |->
                        IF i \in at THEN [bi |-> batch_index, id |-> task_id]
                        ELSE pending_batches[i]]
          /\ alloc_count' = alloc_count + 1
          /\ last_op' = [NoOp EXCEPT !.op = "submit", !.k = batch_index, !.id = task_id,
                                     !.pre = pending_batches]
          /\ alloc_task' = (batch_index :> task_id) @@ alloc_task
    /\ UNCHANGED <<retired, alloc_base, retired_live, task_failed, cancelled,
                   callback_log>>

\* client.get(task_id) raises what the execution of the task raised
client_get_raises(id) == id \in task_failed

\* wait_next after the popitem: the callback of the context is called with the
\* batch client.get returned, which is not reached when client.get raises
wait_next_callback(raised) == ~raised

\* BatchHandler.wait_next: pops the item, then blocks in client.get until the
\* result of its task is ready.
BH_wait_next ==
    /\ has_pending
    /\ LET pos == popitem_position(pending_batches)
           item == pending_batches[pos]
           raised == client_get_raises(item.id)
       IN /\ client_is_ready(item.id)
          /\ pending_batches' = RemoveAt(pending_batches, pos)
          /\ client_tasks' = client_tasks \ {item.id}
          /\ client_ready' = client_ready \ {item.id}
          /\ retired' = IF raised THEN retired ELSE retired \cup {item.bi}
          /\ retired_live' = IF raised THEN retired_live ELSE retired_live \cup {item.bi}
          /\ callback_log' = IF wait_next_callback(raised)
                             THEN Append(callback_log, [bi |-> item.bi, id |-> item.id])
                             ELSE callback_log
          /\ last_op' = [NoOp EXCEPT !.op = "wait_next", !.k = item.bi, !.id = item.id,
                                     !.pre = pending_batches, !.raised = raised]
    /\ UNCHANGED <<next_batch_index, next_task_id, alloc_base, alloc_count, task_failed,
                   cancelled, alloc_task>>

\* BatchHandler.wait_next with nothing pending: popitem raises KeyError.
BH_wait_next_empty ==
    /\ ~has_pending
    /\ last_op' = [NoOp EXCEPT !.op = "wait_next", !.raised = TRUE]
    /\ UNCHANGED <<bhvars, retired, alloc_base, alloc_count, retired_live, task_failed,
                   cancelled, alloc_task, callback_log>>

\* BatchHandler.reset(next_index)
BH_reset(k) ==
    IF k < 0
    THEN \* ValueError('next_index must be at least 0')
         /\ last_op' = [NoOp EXCEPT !.op = "reset", !.k = k, !.pre = pending_batches,
                                    !.raised = TRUE]
         /\ UNCHANGED <<bhvars, retired, alloc_base, alloc_count, retired_live,
                        task_failed, cancelled, alloc_task, callback_log>>
    ELSE LET r == reset_loop(pending_batches, 1, k)
             gone == {r.removed[i].id : i \in 1..Len(r.removed)}
         IN /\ pending_batches' = r.pending
            /\ client_tasks' = client_tasks \ gone
            /\ client_ready' = client_ready \ gone
            /\ next_batch_index' = IF r.raised THEN next_batch_index ELSE k
            /\ alloc_base' = IF r.raised THEN alloc_base ELSE k
            /\ alloc_count' = IF r.raised THEN alloc_count ELSE 0
            /\ retired_live' = IF r.raised THEN retired_live
                               ELSE {i \in retired_live : i < k}
            /\ last_op' = [op |-> "reset", k |-> k, id |-> 0, pre |-> pending_batches,
                           removed |-> r.removed, raised |-> r.raised]
            /\ cancelled' = cancelled \cup gone
            /\ UNCHANGED <<next_task_id, retired, task_failed, alloc_task, callback_log>>

\* A worker finishes the task: its result becomes ready.
TaskCompletes(id) ==
    /\ id \in client_tasks \ client_ready
    /\ client_ready' = client_ready \cup {id}
    /\ last_op' = NoOp
    /\ UNCHANGED <<next_batch_index, pending_batches, client_tasks, next_task_id,
                   retired, alloc_base, alloc_count, retired_live, task_failed,
                   cancelled, alloc_task, callback_log>>

\* The execution of the task raises (a simulator, summary or discrepancy of the
\* user failed): the task is over and client.get will raise.
TaskFails(id) ==
    /\ id \in client_tasks \ client_ready
    /\ client_ready' = client_ready \cup {id}
    /\ task_failed' = task_failed \cup {id}
    /\ last_op' = NoOp
    /\ UNCHANGED <<next_batch_index, pending_batches, client_tasks, next_task_id,
                   retired, alloc_base, alloc_count, retired_live, cancelled,
                   alloc_task, callback_log>>

\* ------------------------------------------------------------- Rejection
DiscValues == 1..MaxDisc

\* ParameterInference.__init__ / Rejection.set_objective before any objective is set
NoObjective == [set |-> FALSE, n_samples |-> 0, has_threshold |-> FALSE,
                threshold |-> 0, n_batches |-> 0]

NoSamples == [init |-> FALSE, d |-> <<>>, theta |-> <<>>]

\* self.state = dict(n_sim=0, n_batches=0) of ParameterInference.__init__
BaseState == [samples |-> NoSamples, threshold |-> Inf, n_sim |-> 0,
              accept_rate |-> <<1, 1>>, n_batches |-> 0]

\* ceil(a / b) for b > 0; \div rounds down
ceil_div(a, b) == (a + b - 1) \div b

\* elfi.methods.utils.ceil_to_batch_size
ceil_to_batch_size(num, bs) == bs * ceil_div(num, bs)

\* The state and the objective Rejection.set_objective assigns; has_quantile_or_n_sim
\* tells whether n_sim (given, or ceil(n_samples / quantile)) is truthy.
Rejection_set_objective(n_samples, has_threshold, threshold, has_n_sim, n_sim, bs, mpb) ==
    [state |-> BaseState,
     objective |-> [set |-> TRUE, n_samples |-> n_samples,
                    has_threshold |-> has_threshold,
                    threshold |-> IF has_threshold THEN threshold ELSE 0,
                    n_batches |-> IF has_n_sim /\ n_sim # 0 THEN ceil_div(n_sim, bs)
                                  ELSE mpb]]

\* Rejection._init_samples_lazy: inf for the discrepancy, np.empty for the rest
Rejection_init_samples_lazy(n_samples, bs, uninit) ==
    [init |-> TRUE,
     d |-> [i \in 1..(n_samples + bs) |-> Inf],
     theta |-> [i \in 1..(n_samples + bs) |-> uninit]]

\* The first (1-based) slot of v[n_samples:], where _merge_batch puts the batch.
merge_slot_start_overlap(n_samples) == n_samples

merge_slot_start(n_samples) == n_samples + 1

\* "Put the acquired samples to the end": v[n_samples:] = batch[node]
put_batch(v, n_samples, b) ==
    LET first == merge_slot_start(n_samples)
    IN [i \in 1..Len(v) |-> IF i >= first /\ i - first + 1 <= Len(b)
                            THEN b[i - first + 1] ELSE v[i]]

\* The permutations np.argsort may return for d: ascending, ties in any order.
RECURSIVE argsort_masks(_, _)
argsort_masks(d, left) ==
    IF left = {} THEN {<<>>}
    ELSE LET lo == {i \in left : \A j \in left : d[i] <= d[j]}
         IN UNION {{<<i>> \o m : m \in argsort_masks(d, left \ {i})} : i \in lo}

\* v[:] = v[sort_mask]
take(v, sort_mask) == [i \in 1..Len(v) |-> v[sort_mask[i]]]

\* Rejection._merge_batch up to the sort
Rejection_put_batch(samples, n_samples, batch) ==
    [init |-> TRUE,
     d |-> put_batch(samples.d, n_samples, batch.d),
     theta |-> put_batch(samples.theta, n_samples, batch.theta)]

\* the sort of the discrepancies alone
Rejection_sort_discrepancy_only(samples, sort_mask) ==
    [init |-> TRUE, d |-> take(samples.d, sort_mask), theta |-> samples.theta]

\* Rejection._merge_batch: the sort of every output with the one mask
Rejection_sort(samples, sort_mask) ==
    [init |-> TRUE, d |-> take(samples.d, sort_mask), theta |-> take(samples.theta, sort_mask)]

\* The rank whose discrepancy _update_state_meta takes as the threshold.
threshold_rank(n_samples) == n_samples

\* min(1, n_samples / n_sim) as a fraction
accept_rate_uncapped(n_samples, n_sim) == <<n_samples, n_sim>>

accept_rate_of(n_samples, n_sim) ==
    IF n_samples >= n_sim THEN <<1, 1>> ELSE <<n_samples, n_sim>>

\* ------------------------------------------------ Python floats (binary64)
\* The estimate of _update_objective_n_batches is computed in Python floats.
\* A positive float is [hi, lo, e]: the 53-bit significand hi * Limb + lo, with
\* Limb <= hi < 2 * Limb, times 2^e; zero has hi = lo = 0. A significand is
\* kept in two limbs, <<hi, lo>>, as it does not fit a 32-bit integer. Every
\* operation rounds to nearest, ties to even, as IEEE 754 has it.
Limb == 67108864

float_zero == [hi |-> 0, lo |-> 0, e |-> 0]

\* the float 0.2, 0x1.999999999999ap-3
float_fifth == [hi |-> 107374182, lo |-> 26843546, e |-> -55]

limbs_norm(hi, lo) == <<hi + lo \div Limb, lo % Limb>>

limbs_double(a) == limbs_norm(2 * a[1], 2 * a[2])

limbs_geq(a, b) == a[1] > b[1] \/ (a[1] = b[1] /\ a[2] >= b[2])

limbs_sub(a, b) ==
    IF a[2] >= b[2] THEN <<a[1] - b[1], a[2] - b[2]>>
    ELSE <<a[1] - b[1] - 1, a[2] + Limb - b[2]>>

\* What is left behind the last place when the bits `out` of weight below
\* `unit` are shifted out, given what was behind them before:
\* 0 nothing, 1 less than half a place, 2 half, 3 more than half.
tail_after_shift(out, unit, tail) ==
    IF 2 * out > unit THEN 3
    ELSE IF 2 * out = unit THEN (IF tail = 0 THEN 2 ELSE 3)
    ELSE IF out > 0 \/ tail # 0 THEN 1
    ELSE 0

\* a significand shifted right by d bits, at most a limb at a time, with its tail
RECURSIVE limbs_shift_right(_, _, _)
limbs_shift_right(a, tail, d) ==
    IF d = 0 THEN [m |-> a, tail |-> tail]
    ELSE LET k == IF d > 26 THEN 26 ELSE d
             unit == 2 ^ k
         IN limbs_shift_right(<<a[1] \div unit,
                                a[2] \div unit + (a[1] % unit) * (Limb \div unit)>>,
                              tail_after_shift(a[2] % unit, unit, tail), d - k)

\* The float nearest to m * 2^e plus the tail, for m of 53 bits or a few more:
\* m is brought to 53 bits and rounded, ties to even.
RECURSIVE float_round(_, _, _)
float_round(m, e, tail) ==
    IF m[1] >= 2 * Limb
    THEN LET s == limbs_shift_right(m, tail, 1) IN float_round(s.m, e + 1, s.tail)
    ELSE IF tail = 3 \/ (tail = 2 /\ m[2] % 2 = 1)
    THEN LET up == limbs_norm(m[1], m[2] + 1)
         IN IF up[1] >= 2 * Limb THEN [hi |-> Limb, lo |-> 0, e |-> e + 1]
            ELSE [hi |-> up[1], lo |-> up[2], e |-> e]
    ELSE [hi |-> m[1], lo |-> m[2], e |-> e]

\* float(n) of an int 0 <= n < Limb, which is exact
float_of_int(n) ==
    IF n = 0 THEN float_zero
    ELSE LET bits == CHOOSE b \in 1..26 : 2 ^ (b - 1) <= n /\ n < 2 ^ b
         IN [hi |-> n * 2 ^ (27 - bits), lo |-> 0, e |-> bits - 53]

\* The long division of r by y to k more bits of the quotient q, r < 2 y: the
\* quotient and the remainder.
RECURSIVE limbs_divide(_, _, _, _)
limbs_divide(r, y, q, k) ==
    IF k = 0 THEN [q |-> q, rem |-> r]
    ELSE LET bit == limbs_geq(r, y)
             rem == IF bit THEN limbs_sub(r, y) ELSE r
             q1 == limbs_norm(2 * q[1], 2 * q[2] + (IF bit THEN 1 ELSE 0))
         IN IF k = 1 THEN [q |-> q1, rem |-> rem]
            ELSE limbs_divide(limbs_double(rem), y, q1, k - 1)

\* the same continued for k more bits
limbs_divide_on(d, y, k) == limbs_divide(limbs_double(d.rem), y, d.q, k)

\* x / y of two floats, y > 0: the 53 bits of the quotient, the division being
\* taken up again every 9 bits, and the rounding by what is left
float_truediv(x, y) ==
    IF x = float_zero THEN float_zero
    ELSE LET mx == <<x.hi, x.lo>>
             my == <<y.hi, y.lo>>
             big == limbs_geq(mx, my)
             e == x.e - y.e - (IF big THEN 52 ELSE 53)
             tail(rem) == IF rem = <<0, 0>> THEN 0
                          ELSE IF limbs_double(rem) = my THEN 2
                          ELSE IF limbs_geq(limbs_double(rem), my) THEN 3 ELSE 1
         IN CHOOSE quotient \in
               {float_round(d6.q, e, tail(d6.rem)) :
                  d6 \in {limbs_divide_on(d5, my, 9) :
                  d5 \in {limbs_divide_on(d4, my, 9) :
                  d4 \in {limbs_divide_on(d3, my, 9) :
                  d3 \in {limbs_divide_on(d2, my, 9) :
                  d2 \in {limbs_divide_on(d1, my, 9) :
                  d1 \in {limbs_divide(IF big THEN mx ELSE limbs_double(mx), my,
                                       <<0, 0>>, 8)}}}}}}} : TRUE

\* x * n of a float and an int 0 <= n < 16
float_mul_int(x, n) ==
    IF n = 0 \/ x = float_zero THEN float_zero
    ELSE float_round(limbs_norm(x.hi * n, x.lo * n), x.e, 0)

\* x + y of two floats
float_add(x, y) ==
    IF y = float_zero THEN x
    ELSE IF x = float_zero THEN y
    ELSE LET a == IF x.e >= y.e THEN x ELSE y
             b == IF x.e >= y.e THEN y ELSE x
             s == limbs_shift_right(<<b.hi, b.lo>>, 0, a.e - b.e)
         IN float_round(limbs_norm(a.hi + s.m[1], a.lo + s.m[2]), a.e, s.tail)

\* math.ceil of a float below 2^26
math_ceil(x) ==
    IF x = float_zero THEN 0
    ELSE LET s == limbs_shift_right(<<x.hi, x.lo>>, 0, 0 - x.e)
         IN s.m[2] + (IF s.tail = 0 THEN 0 ELSE 1)

\* Rejection._update_objective_n_batches: int(n_acceptable < n_samples)
margin_applies_never(n_acceptable, n_samples) == FALSE

margin_applies(n_acceptable, n_samples) == n_acceptable < n_samples

\* n_batches of _update_objective_n_batches when acceptable samples exist:
\*   accept_rate_t = n_acceptable / s['n_sim']
\*   margin = .2 * self.batch_size * int(n_acceptable < n_samples)
\*   ceil((n_samples / accept_rate_t + margin) / self.batch_size)
estimated_n_batches(n_samples, n_acceptable, n_sim, bs, short) ==
    CHOOSE n_batches \in
        {math_ceil(quotient) : quotient \in
            {float_truediv(total, float_of_int(bs)) : total \in
                {float_add(expected, margin) :
                    expected \in
                        {float_truediv(float_of_int(n_samples), accept_rate_t) :
                            accept_rate_t \in {float_truediv(float_of_int(n_acceptable),
                                                             float_of_int(n_sim))}},
                    margin \in {float_mul_int(float_mul_int(float_fifth, bs), short)}}}} :
        TRUE

\* Rejection._update_objective_n_batches
Rejection_update_objective_n_batches(obj, st, bs) ==
    IF ~obj.has_threshold THEN obj
    ELSE LET n_acceptable == Cardinality({i \in 1..Len(st.samples.d) :
                                            st.samples.d[i] <= obj.threshold})
             short == IF margin_applies(n_acceptable, obj.n_samples) THEN 1 ELSE 0
         IN IF n_acceptable = 0
            THEN [obj EXCEPT !.n_batches = obj.n_batches + 1]
            ELSE [obj EXCEPT !.n_batches =
                    estimated_n_batches(obj.n_samples, n_acceptable, st.n_sim, bs, short)]

\* Rejection.update, for the mask np.argsort returned
Rejection_update(obj, st, bs, uninit, batch, sort_mask) ==
    LET s1 == [st EXCEPT !.n_batches = st.n_batches + 1, !.n_sim = st.n_sim + bs]
        lazy == IF s1.samples.init THEN s1.samples
                ELSE Rejection_init_samples_lazy(obj.n_samples, bs, uninit)
        merged == Rejection_sort(Rejection_put_batch(lazy, obj.n_samples, batch), sort_mask)
        s2 == [s1 EXCEPT !.samples = merged,
                         !.threshold = merged.d[threshold_rank(obj.n_samples)],
                         !.accept_rate = accept_rate_of(obj.n_samples, s1.n_sim)]
    IN [state |-> s2, objective |-> Rejection_update_objective_n_batches(obj, s2, bs)]

\* The masks np.argsort may return in Rejection.update
Rejection_sort_masks(obj, st, bs, uninit, batch) ==
    LET lazy == IF st.samples.init THEN st.samples
                ELSE Rejection_init_samples_lazy(obj.n_samples, bs, uninit)
        put == Rejection_put_batch(lazy, obj.n_samples, batch)
    IN argsort_masks(put.d, 1..Len(put.d))

\* Rejection.extract_result: the first n_samples of every output, with the state's
\* threshold; raised when there is nothing to extract
Rejection_extract_result(obj, st) ==
    [raised |-> ~st.samples.init,
     d |-> IF st.samples.init THEN SubSeq(st.samples.d, 1, obj.n_samples) ELSE <<>>,
     theta |-> IF st.samples.init THEN SubSeq(st.samples.theta, 1, obj.n_samples) ELSE <<>>,
     threshold |-> st.threshold,
     n_sim |-> st.n_sim,
     n_batches |-> st.n_batches]

\* ParameterInference.finished of the Rejection object
Rejection_finished(obj, st) == obj.n_batches <= st.n_batches

Ctx_Idle ==
    /\ batch_size = 1
    /\ max_parallel_batches = 1

\* ParameterInference.__init__: batch_size and max_parallel_batches are positive
Ctx_Init ==
    /\ batch_size \in 1..MaxBatchSize
    /\ max_parallel_batches \in 1..MaxParallel

Rej_Idle ==
    /\ rej_objective = NoObjective
    /\ rej_state = BaseState
    /\ rej_uninit = 0
    /\ rej_rows = <<>>

\* ------------------------------------------------- load_data and execution
Values == 0..MaxValue

\* The compiled net of a model theta -> sim -> d, in topological order: the
\* synthetic input nodes first.
NetNodes == <<"_batch_size", "_random_state", "_observed", "theta", "sim", "d">>

NodeSet == Range(NetNodes)

OperationNodes == {"theta", "sim", "d"}

\* a batch with no node in it
NoBatch == [n \in {} |-> 0]

\* ClientBase.compile: operations on the model's nodes, no data
compiled_net ==
    [n \in NodeSet |-> [has_output |-> FALSE, output |-> 0,
                        has_operation |-> n \in OperationNodes]]

\* The operations of the model's nodes, on the outputs of their parents.
operation(n, net) ==
    CASE n = "theta" -> (net["_batch_size"].output + net["_random_state"].output) % (MaxValue + 1)
      [] n = "sim"   -> (net["theta"].output + 1) % (MaxValue + 1)
      [] n = "d"     -> (net["sim"].output + net["_observed"].output) % (MaxValue + 1)

\* The sub seed the random state of a batch is made from.
batch_sub_seed(seed, batch_index) == (seed + batch_index) % (MaxValue + 1)

bind_output(net, n, v) == [net EXCEPT ![n].has_output = TRUE, ![n].output = v]

ObservedLoader_load(ctx, net, batch_index) == bind_output(net, "_observed", ctx.observed)

BatchMetaLoader_load(ctx, net, batch_index) == bind_output(net, "_batch_size", ctx.batch_size)

RandomStateLoader_load(ctx, net, batch_index) ==
    bind_output(net, "_random_state", batch_sub_seed(ctx.seed, batch_index))

\* PoolLoader.load: a stored value becomes the node's output and the node's
\* operation is removed
PoolLoader_load(ctx, net, batch_index) ==
    LET batch == ctx.pool[batch_index]
    IN [n \in NodeSet |->
          IF n \in DOMAIN batch
          THEN [has_output |-> TRUE, output |-> batch[n], has_operation |-> FALSE]
          ELSE net[n]]

apply_loader(name, ctx, net, batch_index) ==
    CASE name = "ObservedLoader"    -> ObservedLoader_load(ctx, net, batch_index)
      [] name = "BatchMetaLoader"   -> BatchMetaLoader_load(ctx, net, batch_index)
      [] name = "RandomStateLoader" -> RandomStateLoader_load(ctx, net, batch_index)
      [] name = "PoolLoader"        -> PoolLoader_load(ctx, net, batch_index)

load_data_order_pool_first ==
    <<"PoolLoader", "ObservedLoader", "BatchMetaLoader", "RandomStateLoader">>

\* the loaders of load_data, in its order
load_data_order ==
    <<"ObservedLoader", "BatchMetaLoader", "RandomStateLoader", "PoolLoader">>

RECURSIVE apply_loaders(_, _, _, _)
apply_loaders(order, ctx, net, batch_index) ==
    IF order = <<>> THEN net
    ELSE apply_loaders(Tail(order), ctx,
                       apply_loader(Head(order), ctx, net, batch_index), batch_index)

\* ClientBase.load_data
load_data(net, ctx, batch_index) == apply_loaders(load_data_order, ctx, net, batch_index)

\* Executor.execute: in topological order, every node that has no output yet
\* gets the output of its operation
RECURSIVE execute_from(_, _, _)
execute_from(i, net, invoked) ==
    IF i > Len(NetNodes) THEN [net |-> net, invoked |-> invoked]
    ELSE LET n == NetNodes[i]
         IN IF ~net[n].has_output /\ net[n].has_operation
            THEN execute_from(i + 1, bind_output(net, n, operation(n, net)), invoked \cup {n})
            ELSE execute_from(i + 1, net, invoked)

Executor_execute(loaded_net) ==
    LET r == execute_from(1, loaded_net, {})
    IN [batch |-> [n \in OperationNodes |-> r.net[n].output], invoked |-> r.invoked]

\* the context the net is loaded with
context(pool) ==
    [seed |-> ctx_seed, batch_size |-> batch_size, observed |-> ctx_observed, pool |-> pool]

\* load_data and the execution of what it returned, recorded
load_and_compute(caller, ctx, batch_index) ==
    LET loaded_net == load_data(compiled_net, ctx, batch_index)
        r == Executor_execute(loaded_net)
    IN [op |-> caller, batch_index |-> batch_index, pool_batch |-> ctx.pool[batch_index],
        loaded_net |-> loaded_net, batch |-> r.batch, invoked |-> r.invoked]

\* BatchHandler.compute(batch_index)
BH_compute(batch_index) ==
    /\ load_last' = load_and_compute("compute", context(pool_batches), batch_index)
    /\ UNCHANGED <<ctx_seed, ctx_observed, pool_stores, pool_batches>>

\* ElfiModel.generate(batch_size, outputs, with_values): a copy of the context
\* with a new pool holding with_values as batch 0
ElfiModel_generate(with_values) ==
    /\ load_last' = load_and_compute("generate",
                        context([b \in 0..MaxLoadIndex |->
                                    IF b = 0 THEN with_values ELSE NoBatch]), 0)
    /\ UNCHANGED <<ctx_seed, ctx_observed, pool_stores, pool_batches>>

NoLoad == [op |-> "none", batch_index |-> 0, pool_batch |-> NoBatch,
           loaded_net |-> compiled_net,
           batch |-> [n \in OperationNodes |-> 0], invoked |-> {}]

\* OutputPool.add_batch(batch_index, batch): the values of the stored nodes
Pool_add_batch(batch_index, batch) ==
    /\ pool_batches' = [pool_batches EXCEPT ![batch_index] =
                          [n \in (DOMAIN batch) \cap pool_stores |-> batch[n]]]
    /\ load_last' = NoLoad
    /\ UNCHANGED <<ctx_seed, ctx_observed, pool_stores>>

Load_Idle ==
    /\ ctx_seed = 0
    /\ ctx_observed = 0
    /\ pool_stores = {}
    /\ pool_batches = [b \in 0..MaxLoadIndex |-> NoBatch]
    /\ load_last = NoLoad

\* ------------------------------------------------------ the inference loop
NoSmcObjective == [n_samples |-> 0, n_batches |-> 0, round |-> 0, thresholds |-> <<>>]

\* self.state of ParameterInference.__init__ with SMC.__init__'s round
BaseSmcState == [n_sim |-> 0, n_batches |-> 0, round |-> 0]

\* the inference object, as one value
inference ==
    [method |-> inf_method, robj |-> rej_objective, rst |-> rej_state, rows |-> rej_rows,
     sobj |-> smc_objective, sst |-> smc_state, pops |-> smc_populations,
     draws |-> smc_draws, bobj |-> bo_objective, bst |-> bo_state]

\* ParameterInference._objective_n_batches
objective_n_batches(inf) ==
    CASE inf.method = "SMC" -> inf.sobj.n_batches
      [] inf.method = "Rejection" -> inf.robj.n_batches
      \* no n_batches in the objective: ceil(n_sim / batch_size)
      [] inf.method = "BO" -> ceil_div(inf.bobj.n_sim, batch_size)

state_n_batches(inf) ==
    CASE inf.method = "SMC" -> inf.sst.n_batches
      [] inf.method = "Rejection" -> inf.rst.n_batches
      [] inf.method = "BO" -> inf.bst.n_batches

\* ParameterInference.finished
finished(inf) == objective_n_batches(inf) <= state_n_batches(inf)

\* _has_batches_to_submit with the pending batches left out of the count
has_batches_to_submit_ignoring_pending(inf, n_pending) ==
    objective_n_batches(inf) > state_n_batches(inf)

\* ParameterInference._has_batches_to_submit
has_batches_to_submit(inf, n_pending) ==
    objective_n_batches(inf) > state_n_batches(inf) + n_pending

\* The first condition of _allow_submit.
parallel_batches_left_or_full(mpb, n_pending) == mpb >= n_pending

parallel_batches_left(mpb, n_pending) == mpb > n_pending

\* ParameterInference._allow_submit
ParameterInference_allow_submit(inf, mpb, n_pending, ready) ==
    /\ parallel_batches_left(mpb, n_pending)
    /\ has_batches_to_submit(inf, n_pending)
    /\ ~ready

\* BayesianOptimization._get_acquisition_index; // rounds down
get_acquisition_index(batch_index) ==
    LET acq_batch_size == batch_size * bo_config.batches_per_acquisition
        initial_offset == bo_config.n_initial_evidence - bo_config.n_precomputed_evidence
        starting_sim_index == batch_size * batch_index
    IN (starting_sim_index - initial_offset) \div acq_batch_size

\* The last test of BayesianOptimization._allow_submit.
acquisition_must_wait_never(acquisitions_left, pending) == FALSE

acquisition_must_wait_pending_or_not(acquisitions_left, pending) == acquisitions_left = 0

acquisition_must_wait(acquisitions_left, pending) == acquisitions_left = 0 /\ pending

\* BayesianOptimization._allow_submit
BO_allow_submit(inf, mpb, n_pending, ready, batch_index) ==
    IF ~ParameterInference_allow_submit(inf, mpb, n_pending, ready) THEN FALSE
    ELSE IF bo_config.async_acq THEN TRUE
    ELSE IF get_acquisition_index(batch_index) < 0 THEN TRUE
    ELSE ~acquisition_must_wait(Len(inf.bst.acquisition), n_pending > 0)

\* _allow_submit of the inference object's class
allow_submit(inf, mpb, n_pending, ready, batch_index) ==
    IF inf.method = "BO" THEN BO_allow_submit(inf, mpb, n_pending, ready, batch_index)
    ELSE ParameterInference_allow_submit(inf, mpb, n_pending, ready)

\* BayesianOptimization._should_optimize: the second condition
interval_passed_always(current, next_update) == TRUE

interval_passed(current, next_update) == current >= next_update

\* BayesianOptimization._should_optimize: the first condition
initial_evidence_passed_always(current, n_initial_evidence) == TRUE

initial_evidence_passed(current, n_initial_evidence) == current >= n_initial_evidence

\* BayesianOptimization._should_optimize
should_optimize(bst) ==
    LET current == bst.gp_n_evidence + batch_size
        next_update == bst.last_GP_update + bo_config.update_interval
    IN /\ initial_evidence_passed(current, bo_config.n_initial_evidence)
       /\ interval_passed(current, next_update)

\* BayesianOptimization.update, with target_model.update adding the batch to the GP
BO_update(inf) ==
    LET optimize == should_optimize(inf.bst)
        gp == inf.bst.gp_n_evidence + batch_size
    IN [inf EXCEPT !.bst.n_batches = inf.bst.n_batches + 1,
                   !.bst.n_sim = inf.bst.n_sim + batch_size,
                   !.bst.n_evidence = inf.bst.n_evidence + batch_size,
                   !.bst.gp_n_evidence = gp,
                   !.bst.gp_updates = Append(inf.bst.gp_updates,
                                             [n_evidence |-> gp, optimize |-> optimize]),
                   !.bst.last_GP_update = IF optimize THEN gp ELSE inf.bst.last_GP_update]

\* BayesianOptimization.set_objective(n_evidence): the objective is assigned and
\* nothing else, also when less evidence is asked for than there is, which is
\* logged
BO_set_objective_restarting(inf, n_evidence) ==
    [inf EXCEPT !.bobj = [n_evidence |-> n_evidence,
                          n_sim |-> n_evidence - bo_config.n_precomputed_evidence],
                !.bst.n_batches = 0,
                !.bst.n_sim = 0]

BO_set_objective(inf, n_evidence) ==
    [inf EXCEPT !.bobj = [n_evidence |-> n_evidence,
                          n_sim |-> n_evidence - bo_config.n_precomputed_evidence]]

\* BayesianOptimization.prepare_new_batch: "if t < 0: return", the batch is
\* still initial evidence from the prior
from_prior_or_first(t) == t <= 0

from_prior(t) == t < 0

\* BayesianOptimization.acq_batch_size
acq_batch_size == batch_size * bo_config.batches_per_acquisition

\* acquisition_method.acquire(n, t): n new points, told apart by the call
\* that returned them and their row in what it returned
acquisition_method_acquire(n, call) == [i \in 1..n |-> [call |-> call, row |-> i]]

\* acquisition[:batch_size]
rows_until(acquisition, n) ==
    SubSeq(acquisition, 1, IF n < Len(acquisition) THEN n ELSE Len(acquisition))

\* the whole of the acquisition, none of its rows being taken off
rows_from_the_first(acquisition, n) == acquisition

\* acquisition[batch_size:]
rows_from(acquisition, n) == SubSeq(acquisition, n + 1, Len(acquisition))

\* BayesianOptimization.prepare_new_batch: None for the initial evidence, else the
\* next batch_size rows of the acquisition, acquired when none are left
BO_prepare_new_batch(inf, batch_index) ==
    LET t == get_acquisition_index(batch_index)
        acquire == Len(inf.bst.acquisition) = 0
        acquisition == IF acquire
                       THEN acquisition_method_acquire(acq_batch_size,
                                                       Len(bo_acquire_calls) + 1)
                       ELSE inf.bst.acquisition
    IN IF from_prior(t)
       THEN [inf |-> inf,
             batch |-> [round |-> t, draw |-> 0, override |-> FALSE, points |-> <<>>],
             acquired |-> FALSE]
       ELSE [inf |-> [inf EXCEPT !.bst.acquisition = rows_from(acquisition, batch_size)],
             batch |-> [round |-> t, draw |-> 0, override |-> TRUE,
                        points |-> rows_until(acquisition, batch_size)],
             acquired |-> acquire]

\* np.argsort is a function: the same array gives the same permutation
np_argsort(d) == CHOOSE sort_mask \in argsort_masks(d, 1..Len(d)) : TRUE

Rejection_update_with_argsort(obj, st, batch) ==
    LET lazy == IF st.samples.init THEN st.samples
                ELSE Rejection_init_samples_lazy(obj.n_samples, batch_size, rej_uninit)
        put == Rejection_put_batch(lazy, obj.n_samples, batch)
    IN Rejection_update(obj, st, batch_size, rej_uninit, batch, np_argsort(put.d))

\* SMC._init_new_round: a new Rejection with the round's threshold as its
\* objective and a new round random state. The reset() in set_objective is on
\* the new Rejection's own BatchHandler, which never submits.
SMC_init_new_round(inf) ==
    LET r == Rejection_set_objective(inf.sobj.n_samples, TRUE,
                                     inf.sobj.thresholds[inf.sst.round + 1],
                                     FALSE, 0, batch_size, max_parallel_batches)
    IN [inf EXCEPT !.robj = r.objective, !.rst = r.state, !.rows = <<>>, !.draws = 0]

\* SMC.set_objective
SMC_set_objective(inf, n_samples, thresholds) ==
    SMC_init_new_round(
        [inf EXCEPT !.sobj = [n_samples |-> n_samples, n_batches |-> max_parallel_batches,
                              round |-> Len(thresholds) - 1, thresholds |-> thresholds]])

RECURSIVE sum_seq(_)
sum_seq(q) == IF q = <<>> THEN 0 ELSE Head(q) + sum_seq(Tail(q))

SMC_update_objective_of_round(inf) ==
    [inf EXCEPT !.sobj.n_batches = inf.robj.n_batches]

\* SMC._update_objective
SMC_update_objective(inf) ==
    [inf EXCEPT !.sobj.n_batches = sum_seq(inf.pops) + inf.robj.n_batches]

\* SMC.update: a population is extracted and the next round begun when the
\* round's Rejection is finished and the round is not the last
smc_next_round_unfinished(round_over, round, last_round) == round < last_round

smc_next_round(round_over, round, last_round) == round_over /\ round < last_round

\* SMC.update: cancel_pending is called when the round's Rejection is finished
smc_cancels_never(round_over) == FALSE

smc_cancels_pending(round_over) == round_over

\* SMC.update; cancel tells whether it called self.batches.cancel_pending()
SMC_update(inf, batch) ==
    LET r == Rejection_update_with_argsort(inf.robj, inf.rst, batch)
        i1 == [inf EXCEPT !.sst.n_batches = inf.sst.n_batches + 1,
                          !.sst.n_sim = inf.sst.n_sim + batch_size,
                          !.robj = r.objective, !.rst = r.state,
                          !.rows = inf.rows \o batch.d]
        round_over == Rejection_finished(r.objective, r.state)
        i2 == IF smc_next_round(round_over, i1.sst.round, i1.sobj.round)
              THEN SMC_init_new_round(
                       [i1 EXCEPT !.pops = Append(i1.pops, r.state.n_batches),
                                  !.sst.round = i1.sst.round + 1])
              ELSE i1
    IN [inf |-> SMC_update_objective(i2), cancel |-> smc_cancels_pending(round_over)]

\* update of the inference object's class
inference_update(inf, batch) ==
    IF inf.method = "SMC" THEN SMC_update(inf, batch)
    ELSE IF inf.method = "BO" THEN [inf |-> BO_update(inf), cancel |-> FALSE]
    ELSE LET r == Rejection_update_with_argsort(inf.robj, inf.rst, batch)
         IN [inf |-> [inf EXCEPT !.robj = r.objective, !.rst = r.state,
                                 !.rows = inf.rows \o batch.d],
             cancel |-> FALSE]

\* prepare_new_batch: None from Rejection and in round 0 of SMC, else the next
\* draw of the proposal from the round's random state
prepare_new_batch(inf, batch_index) ==
    IF inf.method = "BO" THEN BO_prepare_new_batch(inf, batch_index)
    ELSE IF inf.method = "SMC" /\ inf.sst.round > 0
    THEN [inf |-> [inf EXCEPT !.draws = inf.draws + 1],
          batch |-> [round |-> inf.sst.round, draw |-> inf.draws + 1, override |-> TRUE,
                     points |-> <<>>],
          acquired |-> FALSE]
    ELSE [inf |-> inf,
          batch |-> [round |-> 0, draw |-> 0, override |-> FALSE, points |-> <<>>],
          acquired |-> FALSE]

\* the batch the simulator returns: batch_size rows of the discrepancy disc
simulated_batch(batch_index, disc) ==
    [d |-> [i \in 1..batch_size |-> disc],
     theta |-> [i \in 1..batch_size |-> batch_index * batch_size + i]]

\* BatchHandler.cancel_pending: every pending task is removed from the client
\* and the indices of the cancelled batches are handed out again, the next
\* index being the oldest of them
BH_cancel_pending_of(pending, next_index) ==
    [pending |-> <<>>,
     removed |-> {pending[i].id : i \in 1..Len(pending)},
     next_index |-> IF pending # <<>> THEN pending[1].bi ELSE next_index]

set_inference(inf) ==
    /\ rej_objective' = inf.robj
    /\ rej_state' = inf.rst
    /\ rej_rows' = inf.rows
    /\ smc_objective' = inf.sobj
    /\ smc_state' = inf.sst
    /\ smc_populations' = inf.pops
    /\ smc_draws' = inf.draws
    /\ bo_objective' = inf.bobj
    /\ bo_state' = inf.bst

\* Rejection.infer(n_samples, threshold, quantile, n_sim) up to the loop
Rejection_infer(n_samples, has_threshold, threshold, has_n_sim, n_sim) ==
    /\ inf_pc = "new"
    /\ inf_method = "Rejection"
    /\ LET r == Rejection_set_objective(n_samples, has_threshold, threshold, has_n_sim,
                                        n_sim, batch_size, max_parallel_batches)
           inf == [inference EXCEPT !.robj = r.objective, !.rst = r.state, !.rows = <<>>]
       IN /\ set_inference(inf)
          /\ inf_start' = inf
    /\ BH_reset(0)
    /\ inf_pc' = "iterate"
    /\ UNCHANGED <<inf_method, inf_prepared, inf_consumed, rej_uninit,
                   bo_config, bo_acquire_calls>>

\* SMC.infer(n_samples, thresholds) up to the loop
SMC_infer(n_samples, thresholds) ==
    /\ inf_pc = "new"
    /\ inf_method = "SMC"
    /\ LET inf == SMC_set_objective(inference, n_samples, thresholds)
       IN /\ set_inference(inf)
          /\ inf_start' = inf
    /\ inf_pc' = "iterate"
    /\ UNCHANGED <<inf_method, inf_prepared, inf_consumed, rej_uninit,
                   bo_config, bo_acquire_calls, bhvars, histvars>>

\* BayesianOptimization.infer(n_evidence) up to the loop, and through it when
\* the objective is met at once: nothing is pending for cancel_pending then
BO_infer(n_evidence) ==
    /\ inf_pc = "new"
    /\ inf_method = "BO"
    /\ \E inf \in {BO_set_objective(inference, n_evidence)} :
          /\ set_inference(inf)
          /\ inf_start' = inf
          /\ inf_pc' = IF finished(inf) THEN "done" ELSE "iterate"
    /\ UNCHANGED <<inf_method, inf_prepared, inf_consumed, rej_uninit,
                   bo_config, bo_acquire_calls, bhvars, histvars>>

\* set_objective(n_evidence=None) takes the objective's n_evidence, which a
\* set_objective before has put there
BO_objective_default(given, n_evidence) ==
    IF given THEN n_evidence ELSE bo_objective.n_evidence

\* BayesianOptimization.set_objective called on its own, after an infer or
\* another set_objective
BO_set_objective_again(given, n_evidence) ==
    /\ inf_pc \in {"done", "objective"}
    /\ inf_method = "BO"
    /\ set_inference(BO_set_objective(inference, BO_objective_default(given, n_evidence)))
    /\ inf_pc' = "objective"
    /\ UNCHANGED <<inf_method, inf_start, inf_prepared, inf_consumed, rej_uninit,
                   bo_config, bo_acquire_calls, bhvars, histvars>>

\* BayesianOptimization.infer called again: set_objective, then the loop unless
\* finished is true at once; cancel_pending finds nothing pending after an infer
BO_infer_again(given, n_evidence) ==
    /\ inf_pc \in {"done", "objective"}
    /\ inf_method = "BO"
    /\ \E inf \in {BO_set_objective(inference, BO_objective_default(given, n_evidence))} :
          /\ set_inference(inf)
          /\ inf_start' = inf
          /\ inf_pc' = IF finished(inf) THEN "done" ELSE "iterate"
    /\ UNCHANGED <<inf_method, inf_prepared, inf_consumed, rej_uninit,
                   bo_config, bo_acquire_calls, bhvars, histvars>>

\* iterate: one round of "while self._allow_submit(...)": prepare and submit
iterate_submit ==
    /\ inf_pc = "iterate"
    /\ allow_submit(inference, max_parallel_batches, num_pending, has_ready,
                    next_batch_index)
    /\ \E prep \in {prepare_new_batch(inference, next_batch_index)} :
          /\ set_inference(prep.inf)
          /\ inf_prepared' = Append(inf_prepared, prep.batch)
          /\ bo_acquire_calls' =
                IF prep.acquired
                THEN Append(bo_acquire_calls,
                            [t |-> prep.batch.round, n |-> acq_batch_size,
                             batch_index |-> next_batch_index,
                             pending |-> pending_indices,
                             consumed |-> Len(inf_consumed)])
                ELSE bo_acquire_calls
    /\ next_task_id < MaxInferSubmits
    /\ BH_submit
    /\ UNCHANGED <<inf_method, inf_pc, inf_start, inf_consumed, rej_uninit,
                   bo_config>>

\* iterate: _allow_submit is false, on to wait_next
iterate_submitted ==
    /\ inf_pc = "iterate"
    /\ ~allow_submit(inference, max_parallel_batches, num_pending, has_ready,
                     next_batch_index)
    /\ inf_pc' = "wait"
    /\ UNCHANGED <<inf_method, inf_start, inf_prepared, inf_consumed,
                   smcvars, bovars, rejvars, bhvars, histvars>>

\* infer: when the loop ends, finished being true, cancel_pending is called
\* before extract_result
infer_cancels_never(done) == FALSE

infer_cancels_pending(done) == done

\* iterate has no handler around wait_next: update is called with the batch
\* wait_next returned, and is not reached when wait_next raises
iterate_calls_update_always(raised) == TRUE

iterate_calls_update(raised) == ~raised

\* iterate: wait_next returns the oldest pending batch and update gets it; SMC.update
\* cancels the pending batches when its round is over, and so does infer when
\* the inference is finished, which then is done. When client.get raises, the
\* exception leaves wait_next, iterate and infer, neither of which handles it.
iterate_wait_next ==
    /\ inf_pc = "wait"
    /\ has_pending
    /\ LET pos == popitem_position(pending_batches)
           item == pending_batches[pos]
           rest == RemoveAt(pending_batches, pos)
           raised == client_get_raises(item.id)
       IN /\ client_is_ready(item.id)
          \* the discrepancies are the GP's business in BayesianOptimization
          /\ \E disc \in IF inf_method = "BO" \/ raised THEN {1} ELSE DiscValues :
                \E u \in {IF iterate_calls_update(raised)
                          THEN inference_update(inference, simulated_batch(item.bi, disc))
                          ELSE [inf |-> inference, cancel |-> FALSE]} :
                LET done == ~raised /\ finished(u.inf)
                    cancel == ~raised /\ (u.cancel \/ infer_cancels_pending(done))
                    c == IF cancel
                         THEN BH_cancel_pending_of(rest, next_batch_index)
                         ELSE [pending |-> rest, removed |-> {},
                               next_index |-> next_batch_index]
                IN /\ set_inference(u.inf)
                   /\ inf_consumed' =
                         IF iterate_calls_update(raised)
                         THEN Append(inf_consumed,
                                 [bi |-> item.bi, round |-> inf_prepared[pos].round,
                                  draw |-> inf_prepared[pos].draw, disc |-> disc,
                                  id |-> item.id, points |-> inf_prepared[pos].points])
                         ELSE inf_consumed
                   /\ inf_prepared' = IF cancel THEN <<>> ELSE RemoveAt(inf_prepared, pos)
                   /\ inf_pc' = IF raised THEN "raised"
                                ELSE IF done THEN "done" ELSE "iterate"
                   /\ pending_batches' = c.pending
                   /\ next_batch_index' = c.next_index
                   /\ client_tasks' = client_tasks \ ({item.id} \cup c.removed)
                   /\ client_ready' = client_ready \ ({item.id} \cup c.removed)
                   /\ cancelled' = cancelled \cup c.removed
                   /\ alloc_base' = IF c.next_index # next_batch_index
                                    THEN c.next_index ELSE alloc_base
                   /\ alloc_count' = IF c.next_index # next_batch_index
                                     THEN 0 ELSE alloc_count
          /\ retired' = IF raised THEN retired ELSE retired \cup {item.bi}
          /\ retired_live' = IF raised THEN retired_live ELSE retired_live \cup {item.bi}
          /\ callback_log' = IF wait_next_callback(raised)
                             THEN Append(callback_log, [bi |-> item.bi, id |-> item.id])
                             ELSE callback_log
          /\ last_op' = [NoOp EXCEPT !.op = "wait_next", !.k = item.bi, !.id = item.id,
                                     !.pre = pending_batches, !.raised = raised]
    /\ UNCHANGED <<inf_method, inf_start, rej_uninit, next_task_id,
                   bo_config, bo_acquire_calls, task_failed, alloc_task>>

NoBOConfig == [n_initial_evidence |-> 0, n_precomputed_evidence |-> 0,
               batches_per_acquisition |-> 1, update_interval |-> 1, async_acq |-> FALSE]

NoBOObjective == [n_evidence |-> 0, n_sim |-> 0]

\* the state BayesianOptimization.__init__ leaves; the GP holds the precomputed
\* evidence
BaseBOState(cfg) ==
    [n_sim |-> 0, n_batches |-> 0, n_evidence |-> cfg.n_precomputed_evidence,
     last_GP_update |-> cfg.n_initial_evidence, acquisition |-> <<>>,
     gp_n_evidence |-> cfg.n_precomputed_evidence, gp_updates |-> <<>>]

Infer_Idle ==
    /\ inf_method = "Rejection"
    /\ inf_pc = "idle"
    /\ inf_prepared = <<>>
    /\ inf_consumed = <<>>
    /\ smc_objective = NoSmcObjective
    /\ smc_state = BaseSmcState
    /\ smc_populations = <<>>
    /\ smc_draws = 0
    /\ bo_config = NoBOConfig
    /\ bo_objective = NoBOObjective
    /\ bo_state = BaseBOState(NoBOConfig)
    /\ bo_acquire_calls = <<>>
    \* before set_objective: the object as it was constructed
    /\ inf_start = inference

\* ------------------------------------------------ copying a model
\* the nodes of the model that can have observed data
ObservedNodes == {"sim"}

\* the pool objects a context can be given; "None" is no pool
Pools == {"None", "pool"}

\* a name that is not a key of the dict
NoValue == -1

Models == {"model", "model_copy"}

NoContext == [exists |-> FALSE, seed |-> 0, batch_size |-> 1, pool |-> "None",
              observed |-> 1]

\* ComputationContext.__init__(seed): batch_size or 1, observed or {} (the dict
\* object 1), no pool
new_context(seed) == [exists |-> TRUE, seed |-> seed, batch_size |-> 1, pool |-> "None",
                      observed |-> 1]

\* ComputationContext.copy: copy.copy makes a new object with the attributes of
\* the old one, each bound to the same value or object
ComputationContext_copy(ctx) == ctx

\* what a context holds: its attributes and the contents of its observed dict
context_value(ctx) == [seed |-> ctx.seed, batch_size |-> ctx.batch_size,
                       pool |-> ctx.pool, observed |-> obs_heap[ctx.observed]]

\* ElfiModel.__copy__: the copy gets a copy of the context
ElfiModel_copy ==
    /\ ~model_ctx["model_copy"].exists
    /\ model_ctx' = [model_ctx EXCEPT
                        !["model_copy"] = ComputationContext_copy(model_ctx["model"])]
    /\ copy_snapshot' = context_value(model_ctx["model"])
    /\ UNCHANGED <<obs_heap, ctor>>

\* the model at work: the original until it is copied, then the copy
model_in_use == IF model_ctx["model_copy"].exists THEN "model_copy" ELSE "model"

\* model.computation_context.seed = seed
context_set_seed(m, seed) ==
    /\ model_ctx' = [model_ctx EXCEPT ![m].seed = seed]
    /\ UNCHANGED <<obs_heap, copy_snapshot, ctor>>

\* model.computation_context.batch_size = batch_size
context_set_batch_size(m, bs) ==
    /\ model_ctx' = [model_ctx EXCEPT ![m].batch_size = bs]
    /\ UNCHANGED <<obs_heap, copy_snapshot, ctor>>

\* model.computation_context.pool = pool (the setter)
context_set_pool(m, pool) ==
    /\ model_ctx' = [model_ctx EXCEPT ![m].pool = pool]
    /\ UNCHANGED <<obs_heap, copy_snapshot, ctor>>

\* model.observed[name] = value: ElfiModel.observed is the dict of the context,
\* and the assignment stores into that dict object
model_set_observed(m, name, value) ==
    /\ obs_heap' = [obs_heap EXCEPT ![model_ctx[m].observed][name] = value]
    /\ UNCHANGED <<model_ctx, copy_snapshot, ctor>>

\* "a or b" of Python for an argument a that is None (not given) or an int
py_or(given, a, b) == IF given /\ a # 0 THEN a ELSE b

NoCtor == [called |-> FALSE, class |-> "ParameterInference", given |-> FALSE,
           value |-> 0, num_cores |-> 0, raised |-> FALSE, max_parallel_batches |-> 0]

\* ParameterInference.__init__ after the model was copied: max_parallel_batches
\* is the argument or the cores of the client, and must be at least one
ParameterInference_init(given, value, num_cores) ==
    LET mpb == py_or(given, value, num_cores)
    IN [called |-> TRUE, class |-> "ParameterInference", given |-> given, value |-> value,
        num_cores |-> num_cores, raised |-> mpb <= 0,
        max_parallel_batches |-> mpb]

\* InferenceMethod.__init__ of elfi/methods/methods.py after the model was
\* copied: the same assignment, and no check
InferenceMethod_init(given, value, num_cores) ==
    LET mpb == py_or(given, value, num_cores)
    IN [called |-> TRUE, class |-> "InferenceMethod", given |-> given, value |-> value,
        num_cores |-> num_cores, raised |-> FALSE,
        max_parallel_batches |-> mpb]

\* the rest of the constructor of an inference method, the model being copied
construct(class, given, value, num_cores) ==
    /\ model_ctx["model_copy"].exists
    /\ ~ctor.called
    /\ ctor' = IF class = "ParameterInference"
               THEN ParameterInference_init(given, value, num_cores)
               ELSE InferenceMethod_init(given, value, num_cores)
    /\ UNCHANGED <<model_ctx, obs_heap, copy_snapshot>>

Copy_Idle ==
    /\ ctor = NoCtor
    /\ model_ctx = [m \in Models |-> IF m = "model" THEN new_context(0) ELSE NoContext]
    /\ obs_heap = [r \in {1} |-> [n \in ObservedNodes |-> NoValue]]
    /\ copy_snapshot = context_value(NoContext)

\* ------------------------------------------------- GMDistribution.rvs
\* A proposal is represented by whether its prior log-density is finite.

\* the round of the loop in which rvs logs that valid proposals are hard to find
WarningTrials == 100

NoRvs == [pc |-> "idle", prior_logpdf |-> FALSE, size |-> 0, n_accepted |-> 0,
          n_left |-> 0, trials |-> 0, output |-> <<>>, warned |-> FALSE]

\* x[np.isfinite(prior_logpdf(x))]
keep_all(x) == x

keep_finite(x) == SelectSeq(x, LAMBDA finite : finite)

\* "while n_accepted < size"
rvs_loop_pc(n_accepted, size) == IF n_accepted < size THEN "loop" ELSE "returned"

\* GMDistribution.rvs up to its loop
GMDistribution_rvs(size, prior_logpdf) ==
    /\ gm_rvs.pc = "idle"
    /\ gm_rvs' = [NoRvs EXCEPT !.pc = rvs_loop_pc(0, size), !.prior_logpdf = prior_logpdf,
                               !.size = size, !.n_left = size]

\* one round of the loop of GMDistribution.rvs, x being the n_left proposals drawn
GMDistribution_rvs_trial(x) ==
    /\ gm_rvs.pc = "loop"
    /\ LET valid == IF gm_rvs.prior_logpdf THEN keep_finite(x) ELSE x
           n_accepted1 == Len(valid)
           n_accepted == gm_rvs.n_accepted + n_accepted1
           trials == gm_rvs.trials + 1
       IN gm_rvs' = [gm_rvs EXCEPT !.output = gm_rvs.output \o valid,
                                   !.n_accepted = n_accepted,
                                   !.n_left = gm_rvs.n_left - n_accepted1,
                                   !.trials = trials,
                                   !.warned = gm_rvs.warned \/ trials = WarningTrials,
                                   !.pc = rvs_loop_pc(n_accepted, gm_rvs.size)]

\* ------------------------------------ SMC._compute_weights_and_cov
\* Particles are points with coordinates in ParticleValues, weights are taken
\* from WeightValues; a variance is a fraction <<numerator, denominator>>, the
\* fraction with denominator 0 being what numpy gives for a division by zero
\* (nan or inf, with a RuntimeWarning and no exception).
ParameterCounts == {1, 2}
ParticleValues == {0, 1}
WeightValues == {0, 1}

\* elfi.methods.utils.weighted_var for one component: with V_1 = sum(w),
\* V_2 = sum(w ** 2), xbar = sum(w x) / V_1,
\*   sum(w (x - xbar) ** 2) / (V_1 - V_2 / V_1)
\*     = sum(w (V_1 x - sum(w x)) ** 2) / (V_1 (V_1 ** 2 - V_2))
weighted_var(x, weights) ==
    LET n == Len(x)
        V_1 == sum_seq(weights)
        V_2 == sum_seq([i \in 1..n |-> weights[i] * weights[i]])
        S == sum_seq([i \in 1..n |-> weights[i] * x[i]])
    IN <<sum_seq([i \in 1..n |-> weights[i] * (V_1 * x[i] - S) * (V_1 * x[i] - S)]),
         V_1 * (V_1 * V_1 - V_2)>>

\* np.isfinite of a fraction
is_finite(v) == v[2] # 0

\* "if not np.all(np.isfinite(cov))"
cov_unusable(cov) == \E d \in DOMAIN cov : ~is_finite(cov[d])

\* "if np.count_nonzero(w) == 0"
all_weights_zero_never(w) == FALSE

all_weights_zero(w) == \A i \in DOMAIN w : w[i] = 0

\* the diagonal of np.diag(np.ones(n_params))
identity_cov(n_params) == [d \in 1..n_params |-> <<1, 1>>]

\* SMC._compute_weights_and_cov for the particles x (one point per sample);
\* ratio is exp(p_logpdf - q_logpdf), used when there is a population already;
\* cov is the diagonal of the matrix
SMC_compute_weights_and_cov(populations, x, ratio, n_params) ==
    LET w == IF populations # <<>> THEN ratio ELSE [i \in DOMAIN x |-> 1]
        cov == [d \in 1..n_params |->
                  LET s2 == weighted_var([i \in DOMAIN x |-> x[i][d]], w)
                  IN <<2 * s2[1], s2[2]>>]
    IN IF all_weights_zero(w)
       THEN [called |-> TRUE, round |-> Len(populations), x |-> x, w |-> w,
             raised |-> TRUE, warned |-> FALSE, cov |-> <<>>]
       ELSE [called |-> TRUE, round |-> Len(populations), x |-> x, w |-> w,
             raised |-> FALSE, warned |-> cov_unusable(cov),
             cov |-> IF cov_unusable(cov) THEN identity_cov(n_params) ELSE cov]

NoCall == [called |-> FALSE, round |-> 0, x |-> <<>>, w |-> <<>>, raised |-> FALSE,
           warned |-> FALSE, cov |-> <<>>]

NoSmcPop == [pc |-> "idle", n_samples |-> 0, n_params |-> 0, populations |-> <<>>,
             last |-> NoCall]

\* What GMDistribution.rvs can return for the population prev: a mean with a
\* perturbation of covariance prev.cov, which is none in a component of
\* variance zero, where the means of positive weight agree
is_proposal(prev, point) ==
    \A d \in DOMAIN point :
        (is_finite(prev.cov[d]) /\ prev.cov[d][1] = 0)
        => \E j \in DOMAIN prev.x : prev.w[j] > 0 /\ point[d] = prev.x[j][d]

\* SMC.update when the round's Rejection is finished and a round follows:
\* "self._populations.append(self._extract_population())" for the n_samples
\* particles x the Rejection accepted; the RuntimeError leaves update
SMC_append_population(x, ratio) ==
    /\ smc_pop.pc = "round"
    /\ LET pops == smc_pop.populations
           call == SMC_compute_weights_and_cov(pops, x, ratio, smc_pop.n_params)
       IN /\ pops # <<>> => \A i \in DOMAIN x : is_proposal(pops[Len(pops)], x[i])
          /\ smc_pop' = [smc_pop EXCEPT
                !.last = call,
                !.pc = IF call.raised THEN "raised" ELSE "round",
                !.populations = IF call.raised THEN pops
                                ELSE Append(pops, [x |-> call.x, w |-> call.w,
                                                   cov |-> call.cov])]

\* ------------------------------------------------------ BOLFI.sample
\* A candidate initial point is represented by whether np.isinf is true of its
\* log-posterior; the candidates are in the order of the initials array
\* (0-based index k is initials[k + 1] here).
NoBolfi == [pc |-> "idle", given |-> FALSE, n_chains |-> 0, initials |-> <<>>,
            ii |-> 0, ii_initial |-> 0, dispatched |-> <<>>, error |-> "none"]

\* BOLFI.sample up to its dispatch loop; given tells whether initials were
\* passed, of shape (n_chains, n_params)
BOLFI_sample(n_chains, initials, given) ==
    /\ bolfi.pc = "idle"
    /\ bolfi' = [NoBolfi EXCEPT !.pc = "loop", !.given = given, !.n_chains = n_chains,
                               !.initials = initials]

\* "if ii_initial == len(inds)": inds is assigned only when the initials are
\* the default ones
exhausted_check(b, ii_initial) ==
    IF b.given THEN "NameError"
    ELSE IF ii_initial = Len(b.initials) THEN "ValueError"
    ELSE "none"

\* initials[ii_initial] of the while condition and of the dispatch
index_check(b) == IF b.ii_initial >= Len(b.initials) THEN "IndexError" ELSE "none"

\* one step of the dispatch loop of BOLFI.sample: the end of the for loop, one
\* round of the while loop that discards a point, or the dispatch of a chain
BOLFI_sample_step ==
    /\ bolfi.pc = "loop"
    /\ bolfi' =
          IF bolfi.ii = bolfi.n_chains THEN [bolfi EXCEPT !.pc = "dispatched"]
          ELSE IF index_check(bolfi) # "none"
          THEN [bolfi EXCEPT !.pc = "raised", !.error = index_check(bolfi)]
          ELSE IF bolfi.initials[bolfi.ii_initial + 1]
          THEN LET e == exhausted_check(bolfi, bolfi.ii_initial + 1)
               IN [bolfi EXCEPT !.ii_initial = bolfi.ii_initial + 1,
                                !.pc = IF e = "none" THEN "loop" ELSE "raised",
                                !.error = e]
          ELSE [bolfi EXCEPT !.dispatched = Append(bolfi.dispatched, bolfi.ii_initial),
                             !.ii_initial = bolfi.ii_initial + 1,
                             !.ii = bolfi.ii + 1]

\* ------------------------------------- load_data on the net as an object
\* A net is a map from its nodes to references of attribute dicts. The compiled
\* net has the references 1..Len(NetNodes); the net load_data makes has the
\* next Len(NetNodes), taken again at every load (the net of the load before
\* is not looked at any more).
node_index(n) == CHOOSE i \in 1..Len(NetNodes) : NetNodes[i] = n

net_value(heap, net) == [n \in NodeSet |-> heap[net[n]]]

NoNetLoad == [loaded |-> FALSE, batch_index |-> 0, ctx |-> 0, value |-> compiled_net]

NewNetStore ==
    [heap |-> [r \in 1..Len(NetNodes) |-> compiled_net[NetNodes[r]]],
     compiled |-> [n \in NodeSet |-> node_index(n)],
     loaded_indices |-> {},
     last |-> NoNetLoad]

\* "loaded_net = nx.DiGraph(compiled_net)": a graph of the same nodes and edges
\* whose attribute dicts are copies of the argument's
nx_DiGraph_same_dicts(heap, net) == [heap |-> heap, net |-> net]

nx_DiGraph(heap, net) ==
    [heap |-> [r \in 1..(2 * Len(NetNodes)) |->
                 IF r <= Len(NetNodes) THEN heap[r]
                 ELSE heap[net[NetNodes[r - Len(NetNodes)]]]],
     net |-> [n \in NodeSet |-> Len(NetNodes) + node_index(n)]]

\* ClientBase.load_data: the loaders write into the attribute dicts of the
\* copy's nodes
ClientBase_load_data(store, ctx, batch_index) ==
    LET g == nx_DiGraph(store.heap, store.compiled)
        loaded == load_data(net_value(g.heap, g.net), ctx, batch_index)
    IN [heap |-> [r \in DOMAIN g.heap |->
                    IF \E n \in NodeSet : g.net[n] = r
                    THEN loaded[CHOOSE n \in NodeSet : g.net[n] = r]
                    ELSE g.heap[r]],
        loaded_net |-> g.net]

\* BatchHandler.submit up to client.submit: the compiled net of the handler is
\* loaded for the batch index
BH_submit_load(batch_index) ==
    LET ctx == context(pool_batches)
        r == ClientBase_load_data(net_store, ctx, batch_index)
    IN net_store' = [net_store EXCEPT
                        !.heap = r.heap,
                        !.loaded_indices = net_store.loaded_indices \cup {batch_index},
                        !.last = [loaded |-> TRUE, batch_index |-> batch_index, ctx |-> ctx,
                                  value |-> net_value(r.heap, r.loaded_net)]]

Calls_Idle ==
    /\ net_store = NewNetStore
    /\ bolfi = NoBolfi
    /\ gm_rvs = NoRvs
    /\ smc_pop = NoSmcPop

BH_Init ==
    /\ next_batch_index = 0
    /\ pending_batches = <<>>
    /\ client_tasks = {}
    /\ client_ready = {}
    /\ next_task_id = 0
    /\ retired = {}
    /\ last_op = NoOp
    /\ alloc_base = 0
    /\ alloc_count = 0
    /\ retired_live = {}
    /\ task_failed = {}
    /\ cancelled = {}
    /\ alloc_task = <<>>
    /\ callback_log = <<>>

\* a RandomState that is not used
Seed_Idle ==
    /\ rs_stream = <<>>
    /\ rs_pos = 0
    /\ seed_calls = <<>>

Init ==
    BH_Init /\ Seed_Idle /\ Ctx_Idle /\ Rej_Idle /\ Load_Idle /\ Infer_Idle
    /\ Copy_Idle /\ Calls_Idle

Submit == BH_submit /\ UNCHANGED frame_BatchHandler

WaitNext == BH_wait_next /\ UNCHANGED frame_BatchHandler

WaitNextEmpty == BH_wait_next_empty /\ UNCHANGED frame_BatchHandler

Reset == \E k \in -1..MaxResetIndex : BH_reset(k) /\ UNCHANGED frame_BatchHandler

Complete == \E id \in client_tasks : TaskCompletes(id) /\ UNCHANGED frame_BatchHandler

\* the tasks of this specification succeed; failing tasks are in SpecInfer
Next == Submit \/ WaitNext \/ WaitNextEmpty \/ Reset \/ Complete

Spec == Init /\ [][Next]_vars

\* ---------------------------------------------------------- get_sub_seed

\* The value get_sub_seed returns from the last array of draws.
returned_sub_seed_first(sub_seeds) == sub_seeds[1]

returned_sub_seed(sub_seeds) == sub_seeds[Len(sub_seeds)]

\* The while loop of get_sub_seed: random_state.randint(high, size=n_draws) takes
\* the next n_draws values of the stream, seen collects them, and the loop ends
\* when seen holds n_unique_required values. ok is FALSE when the loop needs more
\* of the stream than is modelled.
RECURSIVE sub_seed_loop(_, _, _, _, _)
sub_seed_loop(stream, pos, seen, n_unique_required, sub_seeds) ==
    LET n_unique == Cardinality(seen)
        n_draws == n_unique_required - n_unique
    IN IF n_unique = n_unique_required
       THEN [ok |-> TRUE, value |-> returned_sub_seed(sub_seeds), pos |-> pos]
       ELSE IF pos + n_draws > Len(stream)
            THEN [ok |-> FALSE, value |-> 0, pos |-> pos]
            ELSE LET drawn == SubSeq(stream, pos + 1, pos + n_draws)
                 IN sub_seed_loop(stream, pos + n_draws, seen \cup Range(drawn),
                                  n_unique_required, drawn)

get_sub_seed(stream, pos, sub_seed_index) ==
    sub_seed_loop(stream, pos, {}, sub_seed_index + 1, <<>>)

\* get_sub_seed(random_state, sub_seed_index, high) on the RandomState object
GetSubSeed(sub_seed_index) ==
    /\ Len(seed_calls) < MaxSeedCalls
    /\ IF sub_seed_index >= SeedHigh
       THEN \* ValueError("Sub seed index ... is out of range")
            /\ seed_calls' = Append(seed_calls,
                    [index |-> sub_seed_index, start |-> rs_pos, end |-> rs_pos,
                     value |-> 0, raised |-> TRUE])
            /\ rs_pos' = rs_pos
       ELSE LET r == get_sub_seed(rs_stream, rs_pos, sub_seed_index)
            IN /\ r.ok
               /\ seed_calls' = Append(seed_calls,
                    [index |-> sub_seed_index, start |-> rs_pos, end |-> r.pos,
                     value |-> r.value, raised |-> FALSE])
               /\ rs_pos' = r.pos
    /\ UNCHANGED <<rs_stream, frame_get_sub_seed>>

\* np.random.RandomState(seed) constructed again from the same seed: the same
\* stream from its start
NewRandomState ==
    /\ rs_pos > 0
    /\ rs_pos' = 0
    /\ UNCHANGED <<rs_stream, seed_calls, frame_get_sub_seed>>

Seed_Init ==
    /\ rs_stream \in [1..MaxDraws -> 0..(SeedHigh - 1)]
    /\ rs_pos = 0
    /\ seed_calls = <<>>

InitSeed ==
    BH_Init /\ Seed_Init /\ Ctx_Idle /\ Rej_Idle /\ Load_Idle /\ Infer_Idle
    /\ Copy_Idle /\ Calls_Idle

CallGetSubSeed == \E i \in 0..SeedHigh : GetSubSeed(i)

NextSeed == CallGetSubSeed \/ NewRandomState

SpecSeed == InitSeed /\ [][NextSeed]_vars

\* ------------------------------------------------------- SpecRej
\* Rejection.set_objective(n_samples, threshold, quantile, n_sim), with the
\* BatchHandler.reset() it ends with
RejSetObjective ==
    /\ \E n_samples \in 1..MaxSamples, has_threshold \in BOOLEAN, has_n_sim \in BOOLEAN,
          threshold \in DiscValues, n_sim \in 1..MaxRejSim :
          /\ (~has_threshold => threshold = 1)
          /\ (~has_n_sim => n_sim = 1)
          /\ LET r == Rejection_set_objective(n_samples, has_threshold, threshold,
                                              has_n_sim, n_sim, batch_size,
                                              max_parallel_batches)
             IN /\ rej_state' = r.state
                /\ rej_objective' = r.objective
    /\ rej_rows' = <<>>
    /\ BH_reset(0)
    /\ UNCHANGED <<rej_uninit, frame_Rejection>>

\* Rejection.update(batch, batch_index) with a batch of batch_size rows
RejUpdate ==
    /\ rej_objective.set
    /\ Len(rej_rows) + batch_size <= MaxRejSim
    /\ \E disc \in [1..batch_size -> DiscValues] :
          LET batch == [d |-> disc,
                        theta |-> [i \in 1..batch_size |-> Len(rej_rows) + i]]
          IN \E sort_mask \in Rejection_sort_masks(rej_objective, rej_state, batch_size,
                                                   rej_uninit, batch) :
                LET r == Rejection_update(rej_objective, rej_state, batch_size,
                                          rej_uninit, batch, sort_mask)
                IN /\ rej_state' = r.state
                   /\ rej_objective' = r.objective
                   /\ rej_rows' = rej_rows \o disc
    /\ UNCHANGED <<rej_uninit, bhvars, histvars, frame_Rejection>>

Rej_Init ==
    /\ rej_objective = NoObjective
    /\ rej_state = BaseState
    /\ rej_uninit \in {0, 1}
    /\ rej_rows = <<>>

InitRej ==
    BH_Init /\ Seed_Idle /\ Ctx_Init /\ Rej_Init /\ Load_Idle /\ Infer_Idle
    /\ Copy_Idle /\ Calls_Idle

NextRej == RejSetObjective \/ RejUpdate

SpecRej == InitRej /\ [][NextRej]_vars

\* ------------------------------------------------------- SpecRejLong
\* A Rejection run by threshold followed for many batches: the discrepancy of a
\* batch is within the threshold or not, and the parameter of a row is the
\* discrepancy it produced. rej_rows is not kept.

\* Rejection.set_objective(n_samples, threshold=threshold)
RejSetThreshold ==
    /\ ~rej_objective.set
    /\ \E n_samples \in 1..MaxSamples :
          LET r == Rejection_set_objective(n_samples, TRUE, 1, FALSE, 0, batch_size,
                                          max_parallel_batches)
          IN /\ rej_state' = r.state
             /\ rej_objective' = r.objective
    /\ BH_reset(0)
    /\ UNCHANGED <<rej_uninit, rej_rows, frame_Rejection>>

\* Rejection.update with the next batch, as the loop of infer calls it while
\* finished is false
RejUpdateUnfinished ==
    /\ rej_objective.set
    /\ ~Rejection_finished(rej_objective, rej_state)
    /\ rej_state.n_batches < MaxLongBatches
    /\ \E disc \in DiscValues :
          LET batch == [d |-> [i \in 1..batch_size |-> disc],
                        theta |-> [i \in 1..batch_size |-> disc]]
          IN \E sort_mask \in Rejection_sort_masks(rej_objective, rej_state, batch_size,
                                                   rej_uninit, batch) :
                LET r == Rejection_update(rej_objective, rej_state, batch_size,
                                          rej_uninit, batch, sort_mask)
                IN /\ rej_state' = r.state
                   /\ rej_objective' = r.objective
    /\ UNCHANGED <<rej_uninit, rej_rows, bhvars, histvars, frame_Rejection>>

NextRejLong == RejSetThreshold \/ RejUpdateUnfinished

SpecRejLong == InitRej /\ [][NextRejLong]_vars

\* ------------------------------------------------------- SpecLoad
\* the node sets a pool is made for
PoolStoreChoices == {{}, {"sim"}, {"theta", "_observed"}}

Load_Init ==
    /\ ctx_seed \in Values
    /\ ctx_observed \in Values
    /\ pool_stores \in PoolStoreChoices
    /\ pool_batches = [b \in 0..MaxLoadIndex |-> NoBatch]
    /\ load_last = NoLoad

Compute ==
    /\ \E batch_index \in 0..MaxLoadIndex : BH_compute(batch_index)
    /\ UNCHANGED frame_load_data

Generate ==
    /\ \E n \in OperationNodes : \E with_values \in [{n} -> Values] :
          ElfiModel_generate(with_values)
    /\ UNCHANGED frame_load_data

PoolAddBatch ==
    /\ pool_stores # {}
    /\ \E batch_index \in 0..MaxLoadIndex : \E batch \in [pool_stores -> Values] :
          Pool_add_batch(batch_index, batch)
    /\ UNCHANGED frame_load_data

InitLoad ==
    BH_Init /\ Seed_Idle /\ Ctx_Idle /\ Rej_Idle /\ Load_Init /\ Infer_Idle
    /\ Copy_Idle /\ Calls_Idle

NextLoad == Compute \/ Generate \/ PoolAddBatch

SpecLoad == InitLoad /\ [][NextLoad]_vars

\* ------------------------------------------------------- SpecInfer
ThresholdLists == UNION {[1..n -> DiscValues] : n \in 1..MaxRounds}

\* BayesianOptimization.__init__ with _resolve_initial_evidence: initial_evidence
\* is a number, rounded up to whole batches, or precomputed evidence of that
\* length
BOConfigs(method, bs) ==
    IF method # "BO" THEN {NoBOConfig}
    ELSE {[n_initial_evidence |-> IF precomputed THEN n ELSE ceil_to_batch_size(n, bs),
           n_precomputed_evidence |-> IF precomputed THEN n ELSE 0,
           batches_per_acquisition |-> b, update_interval |-> u, async_acq |-> a] :
            n \in 0..MaxInitialEvidence, precomputed \in BOOLEAN,
            b \in 1..MaxParallel, u \in 1..MaxUpdateInterval, a \in BOOLEAN}

Infer_Init ==
    /\ inf_method \in {"Rejection", "SMC", "BO"}
    /\ inf_pc = "new"
    /\ inf_prepared = <<>>
    /\ inf_consumed = <<>>
    /\ smc_objective = NoSmcObjective
    /\ smc_state = BaseSmcState
    /\ smc_populations = <<>>
    /\ smc_draws = 0
    /\ bo_config \in BOConfigs(inf_method, batch_size)
    /\ bo_objective = NoBOObjective
    /\ bo_state = BaseBOState(bo_config)
    /\ bo_acquire_calls = <<>>
    \* before set_objective: the object as it was constructed
    /\ inf_start = inference

InferRejection ==
    /\ \E n_samples \in 1..MaxSamples, has_threshold \in BOOLEAN, has_n_sim \in BOOLEAN,
          threshold \in DiscValues, n_sim \in 1..MaxRejSim :
          /\ has_threshold # has_n_sim
          /\ (~has_threshold => threshold = 1)
          /\ (~has_n_sim => n_sim = 1)
          /\ Rejection_infer(n_samples, has_threshold, threshold, has_n_sim, n_sim)
    /\ UNCHANGED frame_infer

InferSMC ==
    /\ \E n_samples \in 1..MaxSamples, thresholds \in ThresholdLists :
          SMC_infer(n_samples, thresholds)
    /\ UNCHANGED frame_infer

InferBO ==
    /\ \E n_evidence \in 0..MaxEvidence : BO_infer(n_evidence)
    /\ UNCHANGED frame_infer

IterateSubmit == iterate_submit /\ UNCHANGED frame_infer

IterateSubmitted == iterate_submitted /\ UNCHANGED frame_infer

IterateWaitNext == iterate_wait_next /\ UNCHANGED frame_infer

WorkerCompletes == \E id \in client_tasks : TaskCompletes(id) /\ UNCHANGED frame_BatchHandler

WorkerFails == \E id \in client_tasks : TaskFails(id) /\ UNCHANGED frame_BatchHandler

InitInfer ==
    /\ batch_size \in 1..MaxBatchSize
    /\ max_parallel_batches \in 1..MaxParallel
    /\ BH_Init /\ Seed_Idle /\ Rej_Idle /\ Load_Idle /\ Infer_Init /\ Copy_Idle /\ Calls_Idle
    \* the samplers run with one simulation per batch
    /\ (inf_method # "BO" => batch_size = 1)

NextInfer ==
    \/ InferRejection \/ InferSMC \/ InferBO
    \/ IterateSubmit \/ IterateSubmitted \/ IterateWaitNext
    \/ WorkerCompletes \/ WorkerFails

SpecInfer == InitInfer /\ [][NextInfer]_vars

\* Rejection.infer(n_samples, n_sim=n_sim): no threshold is given
InferRejectionNSim ==
    /\ \E n_samples \in 1..MaxSamples, n_sim \in 1..MaxRejSim :
          Rejection_infer(n_samples, FALSE, 1, TRUE, n_sim)
    /\ UNCHANGED frame_infer

\* The runs of Rejection by n_sim and of BayesianOptimization when no task
\* fails and every task is completed in the end: infer is one sequential loop,
\* which takes its next step whenever it is not blocked in wait_next, and the
\* workers complete what they were given.
InitInferFair == InitInfer /\ inf_method \in {"Rejection", "BO"}

NextInferFair ==
    \/ InferRejectionNSim \/ InferBO
    \/ IterateSubmit \/ IterateSubmitted \/ IterateWaitNext
    \/ WorkerCompletes

SpecInferFair ==
    /\ InitInferFair
    /\ [][NextInferFair]_vars
    /\ WF_vars(IterateSubmit)
    /\ WF_vars(IterateSubmitted)
    /\ WF_vars(IterateWaitNext)
    /\ WF_vars(WorkerCompletes)

\* ------------------------------------------------------- SpecReinfer
\* BayesianOptimization with calls of set_objective and infer after an infer
BOSetObjectiveAgain ==
    /\ \E given \in BOOLEAN, n_evidence \in 0..MaxEvidence :
          /\ ~given => n_evidence = 0
          /\ BO_set_objective_again(given, n_evidence)
    /\ UNCHANGED frame_infer

BOInferAgain ==
    /\ \E given \in BOOLEAN, n_evidence \in 0..MaxEvidence :
          /\ ~given => n_evidence = 0
          /\ BO_infer_again(given, n_evidence)
    /\ UNCHANGED frame_infer

InitReinfer == InitInfer /\ inf_method = "BO"

NextReinfer ==
    \/ InferBO \/ BOSetObjectiveAgain \/ BOInferAgain
    \/ IterateSubmit \/ IterateSubmitted \/ IterateWaitNext
    \/ WorkerCompletes \/ WorkerFails

SpecReinfer == InitReinfer /\ [][NextReinfer]_vars

\* ------------------------------------------------------- SpecBO
\* A BayesianOptimization object whose update is called with one batch after
\* another, as iterate does.
BOUpdateConfigs(bs) ==
    {[n_initial_evidence |-> IF precomputed THEN n ELSE ceil_to_batch_size(n, bs),
      n_precomputed_evidence |-> IF precomputed THEN n ELSE 0,
      batches_per_acquisition |-> 1, update_interval |-> u, async_acq |-> FALSE] :
       n \in 0..MaxBOInitial, precomputed \in BOOLEAN, u \in 1..MaxBOInterval}

BO_Init ==
    /\ inf_method = "BO"
    /\ inf_pc = "new"
    /\ inf_prepared = <<>>
    /\ inf_consumed = <<>>
    /\ smc_objective = NoSmcObjective
    /\ smc_state = BaseSmcState
    /\ smc_populations = <<>>
    /\ smc_draws = 0
    /\ bo_config \in BOUpdateConfigs(batch_size)
    /\ bo_objective = NoBOObjective
    /\ bo_state = BaseBOState(bo_config)
    /\ bo_acquire_calls = <<>>
    \* before set_objective: the object as it was constructed
    /\ inf_start = inference

frame_BO == <<bhvars, histvars, seedvars, ctxvars, rejvars, loadvars, copyvars, callvars,
              inf_method, inf_pc, inf_start, inf_prepared, inf_consumed, smcvars,
              bo_config, bo_acquire_calls>>

BOUpdate ==
    /\ Len(bo_state.gp_updates) < MaxBOUpdates
    /\ bo_state' = BO_update(inference).bst
    /\ UNCHANGED <<bo_objective, frame_BO>>

InitBO ==
    /\ batch_size \in 1..MaxBatchSize
    /\ max_parallel_batches = 1
    /\ BH_Init /\ Seed_Idle /\ Rej_Idle /\ Load_Idle /\ BO_Init /\ Copy_Idle /\ Calls_Idle

NextBO == BOUpdate

SpecBO == InitBO /\ [][NextBO]_vars

\* ------------------------------------------------------- SpecRvs
RvsCall ==
    /\ \E size \in 1..MaxRvsSize, prior_logpdf \in BOOLEAN :
          GMDistribution_rvs(size, prior_logpdf)
    /\ UNCHANGED <<smc_pop, bolfi, net_store, frame_calls>>

RvsTrial ==
    /\ gm_rvs.trials < MaxRvsTrials
    /\ \E x \in [1..gm_rvs.n_left -> BOOLEAN] : GMDistribution_rvs_trial(x)
    /\ UNCHANGED <<smc_pop, bolfi, net_store, frame_calls>>

InitRvs ==
    BH_Init /\ Seed_Idle /\ Ctx_Idle /\ Rej_Idle /\ Load_Idle /\ Infer_Idle
    /\ Copy_Idle
    /\ Calls_Idle

NextRvs == RvsCall \/ RvsTrial

SpecRvs == InitRvs /\ [][NextRvs]_vars

\* ------------------------------------------------------- SpecPop
\* SMC with n_samples particles of n_params parameters, round after round
Pop_Init ==
    /\ \E n_samples \in 1..MaxSamples, n_params \in ParameterCounts :
          smc_pop = [NoSmcPop EXCEPT !.pc = "round", !.n_samples = n_samples,
                                     !.n_params = n_params]
    /\ gm_rvs = NoRvs
    /\ bolfi = NoBolfi
    /\ net_store = NewNetStore

PopRoundOver ==
    /\ Len(smc_pop.populations) < MaxRounds
    /\ \E x \in [1..smc_pop.n_samples -> [1..smc_pop.n_params -> ParticleValues]],
          ratio \in [1..smc_pop.n_samples -> WeightValues] :
          /\ smc_pop.populations = <<>> => \A i \in DOMAIN ratio : ratio[i] = 1
          /\ SMC_append_population(x, ratio)
    /\ UNCHANGED <<gm_rvs, bolfi, net_store, frame_calls>>

InitPop ==
    BH_Init /\ Seed_Idle /\ Ctx_Idle /\ Rej_Idle /\ Load_Idle /\ Infer_Idle
    /\ Copy_Idle
    /\ Pop_Init

NextPop == PopRoundOver

SpecPop == InitPop /\ [][NextPop]_vars

\* ------------------------------------------------------- SpecSample
\* the candidate lists: np.isinf of the log-posterior of each
CandidateLists == UNION {[1..n -> BOOLEAN] : n \in 1..MaxCandidates}

BolfiSample ==
    /\ \E n_chains \in 1..MaxChains, initials \in CandidateLists, given \in BOOLEAN :
          /\ given => Len(initials) = n_chains
          /\ BOLFI_sample(n_chains, initials, given)
    /\ UNCHANGED <<gm_rvs, smc_pop, net_store, frame_calls>>

BolfiSampleStep ==
    BOLFI_sample_step /\ UNCHANGED <<gm_rvs, smc_pop, net_store, frame_calls>>

InitSample ==
    BH_Init /\ Seed_Idle /\ Ctx_Idle /\ Rej_Idle /\ Load_Idle /\ Infer_Idle
    /\ Copy_Idle /\ Calls_Idle

NextSample == BolfiSample \/ BolfiSampleStep

SpecSample == InitSample /\ [][NextSample]_vars

\* ------------------------------------------------------- SpecNet
\* A BatchHandler whose compiled net is loaded for one batch index after
\* another, with a pool that holds nothing or batch 0 of its nodes.
Net_Init ==
    /\ ctx_seed \in Values
    /\ ctx_observed \in Values
    /\ pool_stores \in PoolStoreChoices
    /\ \E batch \in {NoBatch} \cup [pool_stores -> Values] :
          pool_batches = [b \in 0..MaxLoadIndex |-> IF b = 0 THEN batch ELSE NoBatch]
    /\ load_last = NoLoad

NetLoad ==
    /\ \E batch_index \in 0..MaxLoadIndex : BH_submit_load(batch_index)
    /\ UNCHANGED <<gm_rvs, smc_pop, bolfi, frame_calls>>

InitNet ==
    BH_Init /\ Seed_Idle /\ Ctx_Idle /\ Rej_Idle /\ Net_Init /\ Infer_Idle
    /\ Copy_Idle /\ Calls_Idle

NextNet == NetLoad

SpecNet == InitNet /\ [][NextNet]_vars

\* ------------------------------------------------- claims on the BatchHandler

\* C1: whatever the order in which the tasks become ready, wait_next returns the
\* batch submitted first among the pending ones, which is also the one with the
\* smallest pending index; no later batch overtakes a pending predecessor.
C1_WaitNextFifo ==
    (last_op.op = "wait_next" /\ ~last_op.raised) =>
        /\ Len(last_op.pre) >= 1
        /\ \A j \in 1..Len(last_op.pre) :
              /\ last_op.pre[j].id >= last_op.id
              /\ last_op.pre[j].bi >= last_op.k
              /\ (j > 1 => last_op.pre[j].id > last_op.id)

\* wait_next has just returned a batch while a batch submitted after it was
\* already ready and stays pending
C1_Witness ==
    /\ last_op.op = "wait_next"
    /\ ~last_op.raised
    /\ \E j \in 2..Len(last_op.pre) : last_op.pre[j].id \in client_ready
    /\ Len(pending_batches) >= 1

\* C2: reset(k) with k >= 0 completes normally and leaves exactly the pending
\* indices < k, having called remove_task once for each pending index >= k and
\* for no other, and next_index = k.
C2_ResetContract ==
    (last_op.op = "reset" /\ last_op.k >= 0) =>
        LET pre == last_op.pre
            keep == SelectSeq(pre, LAMBDA e : e.bi < last_op.k)
            drop == {pre[i].bi : i \in {j \in 1..Len(pre) : pre[j].bi >= last_op.k}}
        IN /\ ~last_op.raised
           /\ pending_batches = keep
           /\ {last_op.removed[i].bi : i \in 1..Len(last_op.removed)} = drop
           /\ Len(last_op.removed) = Cardinality(drop)
           /\ next_batch_index = last_op.k

\* C3 as claimed: submit allocates the value of the last reset plus the number of
\* submits since, and never an index that wait_next has already returned.
C3_NeverReissued ==
    (last_op.op = "submit") =>
        /\ last_op.k = alloc_base + alloc_count - 1
        /\ last_op.k \notin retired

\* C3 as amended: submit allocates the value reset last assigned to next_index
\* (0 at construction) plus the number of submits since, so the indices increase
\* by one between two assignments; an index wait_next has returned is allocated
\* again only after a reset assigned next_index a value <= that index.
C3_IncreasingBetweenResets ==
    (last_op.op = "submit") =>
        /\ last_op.k = alloc_base + alloc_count - 1
        /\ next_batch_index = last_op.k + 1
        /\ last_op.k \notin retired_live
        /\ \A i \in retired_live : i < last_op.k
        /\ \A j \in 1..Len(last_op.pre) : last_op.pre[j].bi < last_op.k

\* submit has just allocated, for the second time since a reset, an index that
\* was returned before that reset
C3_Witness ==
    /\ last_op.op = "submit"
    /\ last_op.k \in retired
    /\ alloc_count >= 2

\* ---------------------------------------------------- claims on get_sub_seed

\* C8: from one and the same starting random state, two different indices below
\* high get different sub seeds, also when the stream repeats values.
C8_DistinctSubSeeds ==
    \A a, b \in 1..Len(seed_calls) :
        (/\ ~seed_calls[a].raised
         /\ ~seed_calls[b].raised
         /\ seed_calls[a].start = seed_calls[b].start
         /\ seed_calls[a].index # seed_calls[b].index)
        => seed_calls[a].value # seed_calls[b].value

\* two indices were derived from the same starting state, and the draws of one of
\* the calls held a repeated value
C8_Witness ==
    \E a, b \in 1..Len(seed_calls) :
        /\ ~seed_calls[a].raised
        /\ ~seed_calls[b].raised
        /\ seed_calls[a].start = seed_calls[b].start
        /\ seed_calls[a].index # seed_calls[b].index
        /\ \E p, q \in (seed_calls[a].start + 1)..seed_calls[a].end :
              p < q /\ rs_stream[p] = rs_stream[q]

\* C9: two calls with the same random_state argument and the same index return
\* the same sub seed, whatever calls were made in between.
C9_RepeatableSubSeed ==
    \A a, b \in 1..Len(seed_calls) :
        (/\ ~seed_calls[a].raised
         /\ ~seed_calls[b].raised
         /\ seed_calls[a].index = seed_calls[b].index)
        => seed_calls[a].value = seed_calls[b].value

\* ------------------------------------------------------- claims on Rejection

\* r is an ascending selection of the n smallest values of rows
IsSmallest(r, n, rows) ==
    /\ Len(r) = n
    /\ \A i \in 1..(n - 1) : r[i] <= r[i + 1]
    /\ \E pick \in SUBSET (1..Len(rows)) :
          /\ Cardinality(pick) = n
          /\ \A v \in Range(r) \cup {rows[i] : i \in pick} :
                Cardinality({i \in 1..n : r[i] = v})
                    = Cardinality({i \in pick : rows[i] = v})
          /\ \A i \in (1..Len(rows)) \ pick : \A j \in 1..n : rows[i] >= r[j]

\* C7: once at least n_samples simulations are merged, extract_result returns
\* the n_samples smallest discrepancies received (as a multiset), ascending, and
\* state['threshold'] is the largest of them.
C7_RejectionKeepsSmallest ==
    (rej_objective.set /\ Len(rej_rows) >= rej_objective.n_samples /\ rej_state.n_batches > 0)
    => LET res == Rejection_extract_result(rej_objective, rej_state)
       IN /\ ~res.raised
          /\ IsSmallest(res.d, rej_objective.n_samples, rej_rows)
          /\ res.threshold = res.d[rej_objective.n_samples]

\* more simulations than n_samples were merged in more than one batch; the row
\* received last is among the extracted ones and an earlier, larger one is not
C7_Witness ==
    /\ rej_objective.set
    /\ rej_state.n_batches >= 2
    /\ rej_objective.n_samples >= 2
    /\ Len(rej_rows) > rej_objective.n_samples
    /\ \E i \in 1..(Len(rej_rows) - 1) : rej_rows[i] > rej_state.threshold
    /\ Len(rej_rows) \in Range(Rejection_extract_result(rej_objective, rej_state).theta)

\* ------------------------------------------------------- claims on load_data

\* C10: when the pool holds a value for a node at the batch index loaded, the
\* loaded net has that value as the node's output, whatever the other loaders
\* bound, the execution never invokes the node's operation, and the batch
\* returned carries the pool's value.
C10_PoolOverrides ==
    load_last.op # "none"
    => \A n \in DOMAIN load_last.pool_batch :
          /\ load_last.loaded_net[n].has_output
          /\ load_last.loaded_net[n].output = load_last.pool_batch[n]
          /\ ~load_last.loaded_net[n].has_operation
          /\ n \notin load_last.invoked
          /\ (n \in OperationNodes => load_last.batch[n] = load_last.pool_batch[n])

\* the pool held values for theta and for the observed node that differ from
\* what theta's operation and the observed loader give, and the other
\* operations were invoked
C10_Witness ==
    /\ load_last.op = "compute"
    /\ load_last.batch_index > 0
    /\ DOMAIN load_last.pool_batch = {"theta", "_observed"}
    /\ load_last.pool_batch["_observed"] # ctx_observed
    /\ load_last.pool_batch["theta"]
         # operation("theta", load_data(compiled_net,
                                        context([b \in 0..MaxLoadIndex |-> NoBatch]),
                                        load_last.batch_index))
    /\ load_last.invoked = {"sim", "d"}

\* ------------------------------------------------ SpecCopy
\* A model is set up, copied for an inference run, and the copy is changed.
Copy_Init ==
    /\ \E seed \in 0..MaxValue :
          model_ctx = [m \in Models |-> IF m = "model" THEN new_context(seed)
                                        ELSE NoContext]
    /\ obs_heap = [r \in {1} |-> [n \in ObservedNodes |-> NoValue]]
    /\ copy_snapshot = context_value(NoContext)
    /\ ctor = NoCtor

ModelCopy == ElfiModel_copy /\ UNCHANGED frame_copy

SetSeed == \E seed \in 0..MaxValue :
              context_set_seed(model_in_use, seed) /\ UNCHANGED frame_copy

SetBatchSize == \E bs \in 1..MaxBatchSize :
                   context_set_batch_size(model_in_use, bs) /\ UNCHANGED frame_copy

SetPool == \E pool \in Pools :
              context_set_pool(model_in_use, pool) /\ UNCHANGED frame_copy

SetObserved == \E name \in ObservedNodes, value \in 0..MaxValue :
                  model_set_observed(model_in_use, name, value) /\ UNCHANGED frame_copy

Construct ==
    /\ \E class \in {"ParameterInference", "InferenceMethod"}, given \in BOOLEAN,
          value \in -1..MaxParallel, num_cores \in 0..MaxCores :
          /\ (~given => value = 0)
          /\ construct(class, given, value, num_cores)
    /\ UNCHANGED frame_copy

InitCopy ==
    BH_Init /\ Seed_Idle /\ Ctx_Idle /\ Rej_Idle /\ Load_Idle /\ Infer_Idle
    /\ Copy_Init /\ Calls_Idle

NextCopy == ModelCopy \/ SetSeed \/ SetBatchSize \/ SetPool \/ SetObserved \/ Construct

SpecCopy == InitCopy /\ [][NextCopy]_vars

\* ------------------------------------------------ claims on the inference loop

\* C4: while infer runs, the number of pending batches is at most
\* max_parallel_batches.
C4_PendingWithinParallel ==
    inf_pc \in {"iterate", "wait", "done"} => num_pending <= max_parallel_batches

\* as many batches as allowed are pending, more than one, while more are wanted
C4_Witness ==
    /\ inf_pc = "wait"
    /\ max_parallel_batches > 1
    /\ num_pending = max_parallel_batches
    /\ has_batches_to_submit(inference, num_pending)
    /\ ~has_ready

\* The batches handed to update from position k on are those of the run in
\* which every task completes before _allow_submit is asked again: that run
\* submits one batch per iterate, so its k-th batch has index next_index, the
\* proposal draw prepare_new_batch makes then, and (the same simulator, the same
\* index, the same proposal) the discrepancy the batch consumed here had.
RECURSIVE sequential_run_from(_, _, _)
sequential_run_from(inf, next_index, k) ==
    IF finished(inf) THEN k = Len(inf_consumed) + 1
    ELSE IF k > Len(inf_consumed) THEN FALSE
    ELSE LET c == inf_consumed[k]
             prep == prepare_new_batch(inf, next_index)
         IN /\ c.bi = next_index
            /\ c.round = prep.batch.round
            /\ c.draw = prep.batch.draw
            /\ sequential_run_from(
                   inference_update(prep.inf, simulated_batch(next_index, c.disc)).inf,
                   next_index + 1, k + 1)

C6_SynchronousAcquisition ==
    (inf_method = "BO" /\ ~bo_config.async_acq)
    => /\ \A i \in 1..Len(bo_acquire_calls) :
             /\ bo_acquire_calls[i].pending = <<>>
             /\ bo_acquire_calls[i].consumed = bo_acquire_calls[i].batch_index
       /\ Cardinality({i \in 1..Len(inf_prepared) : inf_prepared[i].round >= 0})
             <= bo_config.batches_per_acquisition

\* a second acquisition was started after the two batches of the first, which
\* max_parallel_batches let be pending together, and the acquisition's first
\* batch is pending
C6_Witness ==
    /\ inf_method = "BO"
    /\ ~bo_config.async_acq
    /\ bo_config.batches_per_acquisition = 2
    /\ max_parallel_batches >= 2
    /\ Len(bo_acquire_calls) = 2
    /\ bo_acquire_calls[2].batch_index = 2
    /\ bo_acquire_calls[2].t = 1
    /\ num_pending = 1
    /\ inf_prepared[1].round = 1

\* ------------------------------------------------ claims on failing batches

\* C11: a batch whose task raised is never handed to update nor to the context
\* callback; once wait_next has retrieved it the exception has left wait_next,
\* iterate and infer, and its index is not submitted again.
C11_FailurePropagates ==
    /\ \A id \in task_failed :
          /\ \A k \in 1..Len(inf_consumed) : inf_consumed[k].id # id
          /\ \A k \in 1..Len(callback_log) : callback_log[k].id # id
          /\ (id \notin client_tasks /\ id \notin cancelled)
                => /\ inf_pc = "raised"
                   /\ \E bi \in DOMAIN alloc_task :
                         /\ alloc_task[bi] = id
                         /\ \A i \in 1..Len(pending_batches) : pending_batches[i].bi # bi
                         /\ next_batch_index > bi
    /\ inf_pc = "raised"
          => \E id \in task_failed : id \notin client_tasks /\ id \notin cancelled

\* the second batch failed after the first was handed to update, and infer was
\* left with a batch still pending
C11_Witness ==
    /\ inf_pc = "raised"
    /\ Len(inf_consumed) >= 1
    /\ has_pending
    /\ \E id \in task_failed : id \notin client_tasks /\ id > 0

\* C12: no pending batch refers to a task that reset handed to remove_task, no
\* result of such a task was ever returned by wait_next, and a batch wait_next
\* returns for index i is the result of the last submit that allocated i.
C12_CancelledNeverReturned ==
    /\ \A i \in 1..Len(pending_batches) :
          /\ pending_batches[i].id \notin cancelled
          /\ alloc_task[pending_batches[i].bi] = pending_batches[i].id
    /\ \A k \in 1..Len(callback_log) : callback_log[k].id \notin cancelled
    /\ (last_op.op = "wait_next" /\ last_op.pre # <<>>)
          => (last_op.id \notin cancelled /\ last_op.id = alloc_task[last_op.k])

\* wait_next returned the batch of an index that had been cancelled by reset
\* and submitted again
C12_Witness ==
    /\ last_op.op = "wait_next"
    /\ ~last_op.raised
    /\ \E id \in cancelled : id < last_op.id
    /\ \E k \in 1..Len(callback_log) :
          /\ callback_log[k].bi = last_op.k
          /\ callback_log[k].id = last_op.id
    /\ alloc_base <= last_op.k
    /\ last_op.id > last_op.k

\* C13: when infer has returned, the completed batches cover the objective and
\* nothing is pending: every task submitted was handed to update or cancelled.
C13_NothingPendingAtReturn ==
    inf_pc = "done"
    => /\ objective_n_batches(inference) <= state_n_batches(inference)
       /\ pending_batches = <<>>
       /\ client_tasks = {}
       /\ \A id \in 0..(next_task_id - 1) :
             \/ id \in cancelled
             \/ \E k \in 1..Len(inf_consumed) : inf_consumed[k].id = id

\* Rejection with a threshold finished while a batch submitted ahead was
\* pending, its estimate of the batches needed having dropped
C13_Witness ==
    /\ inf_pc = "done"
    /\ inf_method = "Rejection"
    /\ cancelled # {}
    /\ next_task_id > Len(inf_consumed)

\* ------------------------------------------------ claims on copying a model

\* C14: after model.copy(), whatever is changed through the copy (seed,
\* batch_size, pool, observed[name] = value), the context of the original,
\* with the contents of its observed mapping, is what it was when copied.
C14_CopyDoesNotAlias ==
    model_ctx["model_copy"].exists
    => context_value(model_ctx["model"]) = copy_snapshot

\* the same for the attributes of the context alone
C14_AttributesNotAliased ==
    model_ctx["model_copy"].exists
    => [context_value(model_ctx["model"]) EXCEPT !.observed = copy_snapshot.observed]
         = copy_snapshot

\* C15: the constructor of an inference method raises ValueError whenever the
\* max_parallel_batches given, or the client's num_cores when none is given, is
\* not positive, and no inference object has a limit that is not positive.
C15_NonPositiveParallelRaises ==
    ctor.called
    => LET effective == IF ctor.given THEN ctor.value ELSE ctor.num_cores
       IN /\ effective <= 0 => ctor.raised
          /\ ~ctor.raised => ctor.max_parallel_batches > 0

\* the same for ParameterInference of parameter_inference.py, the value 0 given
\* being no value given
C15_ParameterInferenceRaises ==
    (ctor.called /\ ctor.class = "ParameterInference")
    => LET effective == IF ctor.given /\ ctor.value # 0 THEN ctor.value
                        ELSE ctor.num_cores
       IN /\ effective <= 0 <=> ctor.raised
          /\ ~ctor.raised => ctor.max_parallel_batches > 0

\* ------------------------------------------------ claims on the submission policy

C17_SubmitOnlyWhenWanted ==
    [][next_task_id' # next_task_id
       => /\ \A i \in 1..Len(pending_batches) : pending_batches[i].id \notin client_ready
          /\ state_n_batches(inference) + Len(pending_batches)
                < objective_n_batches(inference)]_vars

\* Rejection went on to wait_next with a batch wanted and allowed by
\* max_parallel_batches, because a pending batch was ready
C17_Witness ==
    /\ inf_pc = "wait"
    /\ inf_method = "Rejection"
    /\ has_ready
    /\ client_ready \cap task_failed = {}
    /\ num_pending < max_parallel_batches
    /\ state_n_batches(inference) + num_pending < objective_n_batches(inference)

\* ------------------------------------------------ claims on the objective

C19_SmcBatchBookkeeping ==
    (inf_method = "SMC" /\ Len(inf_consumed) >= 1)
    => /\ smc_objective.n_batches = sum_seq(smc_populations) + rej_objective.n_batches
       /\ smc_state.n_batches = sum_seq(smc_populations) + rej_state.n_batches

\* the second round has had an update, the first population being complete
C19_Witness ==
    /\ inf_method = "SMC"
    /\ smc_state.round = 1
    /\ Len(smc_populations) = 1
    /\ smc_populations[1] >= 1
    /\ rej_state.n_batches >= 1

\* C20: SMC goes through the rounds 0..len(thresholds)-1 in order: the round
\* changes by one at a time and only in an update that finishes the round's
\* Rejection, the Rejection of round r has threshold thresholds[r], the round
\* stays within the thresholds, and SMC is finished only in the last round with
\* that round's Rejection finished.
C20_RoundsInOrder ==
    /\ [][smc_state'.round # smc_state.round
           => /\ smc_state'.round = smc_state.round + 1
              /\ Len(inf_consumed') = Len(inf_consumed) + 1
              /\ LET c == inf_consumed'[Len(inf_consumed')]
                     r == Rejection_update_with_argsort(rej_objective, rej_state,
                                                        simulated_batch(c.bi, c.disc))
                 IN r.objective.n_batches <= r.state.n_batches]_vars
    /\ [](inf_method = "SMC" /\ inf_pc # "new"
            => /\ smc_state.round >= 0
               /\ smc_state.round <= Len(smc_objective.thresholds) - 1
               /\ rej_objective.has_threshold
               /\ rej_objective.threshold = smc_objective.thresholds[smc_state.round + 1]
               /\ Len(smc_populations) = smc_state.round
               /\ (smc_objective.n_batches <= smc_state.n_batches
                     => /\ smc_state.round = Len(smc_objective.thresholds) - 1
                        /\ rej_objective.n_batches <= rej_state.n_batches))

\* SMC is done after two rounds with different thresholds
C20_Witness ==
    /\ inf_method = "SMC"
    /\ inf_pc = "done"
    /\ smc_state.round = 1
    /\ Len(smc_objective.thresholds) = 2
    /\ smc_objective.thresholds[1] # smc_objective.thresholds[2]
    /\ rej_objective.threshold = smc_objective.thresholds[2]

\* ------------------------------------- claims on BayesianOptimization

\* C21: prepare_new_batch(i) gives no override exactly when
\* batch_size * i < n_initial_evidence - n_precomputed_evidence; for a later
\* index the batch comes from the acquisition, whose index t is the quotient,
\* rounded down, of batch_size * i - (n_initial_evidence - n_precomputed_evidence)
\* by batch_size * batches_per_acquisition, and an acquire call made for the
\* batch is made with that t.
C21_PriorThenAcquisition ==
    [][(inf_method = "BO" /\ Len(inf_prepared') = Len(inf_prepared) + 1)
       => LET i == next_batch_index
              p == inf_prepared'[Len(inf_prepared')]
              offset == bo_config.n_initial_evidence - bo_config.n_precomputed_evidence
              acq == batch_size * bo_config.batches_per_acquisition
              sim == batch_size * i - offset
          IN /\ ~p.override <=> batch_size * i < offset
             /\ p.override => (p.round * acq <= sim /\ sim < (p.round + 1) * acq)
             /\ ~p.override => bo_acquire_calls' = bo_acquire_calls
             /\ bo_acquire_calls' # bo_acquire_calls
                   => LET call == bo_acquire_calls'[Len(bo_acquire_calls')]
                      IN /\ call.batch_index = i
                         /\ call.t * acq <= sim
                         /\ sim < (call.t + 1) * acq]_vars

\* a batch from the prior was consumed and the acquisition of index 1 was made
C21_Witness ==
    /\ inf_method = "BO"
    /\ \E k \in 1..Len(inf_consumed) : inf_consumed[k].round < 0
    /\ \E k \in 1..Len(bo_acquire_calls) : bo_acquire_calls[k].t = 1

\* C22: target_model.update is called with optimize=True only when the evidence
\* count with the current batch is at least n_initial_evidence and at least
\* update_interval more than the count at the previous optimizing update; so
\* between two consecutive optimizing updates the count advances by at least
\* update_interval.
C22_RefitThrottled ==
    LET log == bo_state.gp_updates
    IN \A k \in 1..Len(log) :
          /\ log[k].n_evidence = bo_config.n_precomputed_evidence + k * batch_size
          /\ log[k].optimize
                => /\ log[k].n_evidence >= bo_config.n_initial_evidence
                   /\ \A j \in 1..(k - 1) :
                         log[j].optimize
                         => log[k].n_evidence >= log[j].n_evidence + bo_config.update_interval

\* two optimizing updates with an update that did not optimize between them
C22_Witness ==
    LET log == bo_state.gp_updates
    IN /\ bo_config.update_interval >= 2
       /\ \E j, k \in 1..Len(log) :
             /\ j + 1 < k
             /\ log[j].optimize /\ log[k].optimize
             /\ \A i \in (j + 1)..(k - 1) : ~log[i].optimize

\* C29: a set_objective of BayesianOptimization with less evidence than there
\* is changes the objective and nothing else: the state with its acquisition
\* points, the GP and the BatchHandler stay as they are; an infer that follows,
\* with the same or no n_evidence, is finished at once and submits nothing.
C29_SmallerObjectiveHarmless ==
    /\ [][(/\ inf_method = "BO"
           /\ inf_pc \in {"done", "objective"}
           /\ bo_objective'.n_evidence < bo_state.n_evidence
           /\ <<bo_objective, inf_pc>>' # <<bo_objective, inf_pc>>)
          => /\ bo_objective'.n_sim
                   = bo_objective'.n_evidence - bo_config.n_precomputed_evidence
             /\ bo_state' = bo_state
             /\ UNCHANGED <<bhvars, inf_prepared, inf_consumed, bo_acquire_calls>>
             /\ inf_pc' \in {"done", "objective"}]_vars
    /\ []((/\ inf_method = "BO"
           /\ inf_pc \notin {"new", "idle"}
           /\ bo_objective.n_evidence < bo_state.n_evidence)
          => (inf_pc \in {"done", "objective"} /\ pending_batches = <<>>))

\* after batches were consumed, set_objective asked for less evidence than there is
C29_Witness ==
    /\ inf_method = "BO"
    /\ inf_pc = "objective"
    /\ Len(inf_consumed) >= 2
    /\ bo_objective.n_evidence < bo_state.n_evidence
    /\ bo_objective.n_evidence < inf_start.bobj.n_evidence

\* ------------------------------------------ claims on the samplers' state

\* C23: after every Rejection.update the accept_rate of the state is
\* min(1, n_samples / n_sim), n_sim being the simulations consumed so far: the
\* number of updates times batch_size.
C23_AcceptRate ==
    rej_state.n_batches >= 1
    => LET consumed == rej_state.n_batches * batch_size
           rate == rej_state.accept_rate
       IN /\ rej_state.n_sim = consumed
          /\ Len(rej_rows) = consumed
          /\ rate[2] > 0
          /\ IF rej_objective.n_samples >= consumed
             THEN rate[1] = rate[2]
             ELSE rate[1] * consumed = rej_objective.n_samples * rate[2]

\* more simulations than samples after the second update: the rate is below 1
C23_Witness ==
    /\ rej_state.n_batches >= 2
    /\ rej_objective.n_samples < rej_state.n_sim
    /\ rej_state.accept_rate[1] < rej_state.accept_rate[2]

\* ------------------------------------------ claims on the SMC proposal

\* C24: the loop of GMDistribution.rvs makes a bounded number of trials and
\* raises an error when they are used up: a call that has made the trials after
\* which the code reports the difficulty, and still lacks rows, has raised.
C24_RaisesWhenExhausted ==
    (gm_rvs.trials >= WarningTrials /\ gm_rvs.n_accepted < gm_rvs.size)
    => gm_rvs.pc = "raised"

\* C25: in a GMDistribution.rvs call with a prior_logpdf the accepted rows are
\* never more than size, n_accepted + n_left = size, and what is returned is
\* exactly size rows of finite prior log-density.
C25_RowsValid ==
    (gm_rvs.pc # "idle" /\ gm_rvs.prior_logpdf)
    => /\ gm_rvs.n_accepted <= gm_rvs.size
       /\ gm_rvs.n_accepted + gm_rvs.n_left = gm_rvs.size
       /\ Len(gm_rvs.output) = gm_rvs.n_accepted
       /\ gm_rvs.pc = "returned"
             => /\ Len(gm_rvs.output) = gm_rvs.size
                /\ \A k \in 1..gm_rvs.size : gm_rvs.output[k]

\* rows were returned after proposals were discarded and drawn again
C25_Witness ==
    /\ gm_rvs.pc = "returned"
    /\ gm_rvs.prior_logpdf
    /\ gm_rvs.size = 2
    /\ gm_rvs.trials >= 3

\* ------------------------------------------ claims on the SMC populations

\* the particles of a population are all the same point
particles_identical(x) == \A i, j \in DOMAIN x : x[i] = x[j]

\* C26: in a round > 0 whose previous population's particles are all identical,
\* _compute_weights_and_cov returns the identity matrix of the parameters'
\* dimension as covariance, with a warning, and raises nothing.
C26_IdenticalGivesIdentity ==
    (/\ smc_pop.last.called
     /\ smc_pop.last.round > 0
     /\ particles_identical(smc_pop.populations[smc_pop.last.round].x))
    => /\ ~smc_pop.last.raised
       /\ smc_pop.last.warned
       /\ smc_pop.last.cov = identity_cov(smc_pop.n_params)

\* C27: when all the weights of a population are zero _compute_weights_and_cov
\* raises, and no population whose weights are all zero is among the completed
\* populations, the last of which is the next round's proposal.
C27_ZeroWeightsFatal ==
    /\ (smc_pop.last.called /\ \A i \in DOMAIN smc_pop.last.w : smc_pop.last.w[i] = 0)
          => (smc_pop.last.raised /\ smc_pop.pc = "raised")
    /\ \A k \in DOMAIN smc_pop.populations :
          \E i \in DOMAIN smc_pop.populations[k].w : smc_pop.populations[k].w[i] # 0

\* all weights were zero in a round after the first: SMC raised and kept the
\* one population it had
C27_Witness ==
    /\ smc_pop.pc = "raised"
    /\ smc_pop.last.round = 1
    /\ Len(smc_pop.populations) = 1
    /\ Len(smc_pop.last.w) = 2
    /\ \A i \in DOMAIN smc_pop.last.w : smc_pop.last.w[i] = 0

\* ------------------------------------------------ claims on BOLFI.sample

\* C28: BOLFI.sample ends either with every chain dispatched from a candidate
\* of finite log-posterior, the candidates taken in order and each used for at
\* most one chain, or, the candidates being exhausted, with the ValueError and
\* no other error; for default and for given initials.
C28_InitialsOrValueError ==
    /\ bolfi.pc = "dispatched"
          => /\ Len(bolfi.dispatched) = bolfi.n_chains
             /\ \A k \in DOMAIN bolfi.dispatched :
                   /\ bolfi.dispatched[k] < Len(bolfi.initials)
                   /\ ~bolfi.initials[bolfi.dispatched[k] + 1]
                   /\ \A j \in 1..(k - 1) : bolfi.dispatched[j] < bolfi.dispatched[k]
    /\ bolfi.pc = "raised"
          => /\ bolfi.error = "ValueError"
             /\ bolfi.ii_initial = Len(bolfi.initials)

\* ------------------------------------------------ claims on load_data

\* C30: load_data leaves the compiled net as it was before the first load,
\* whatever the batch indices loaded, and the net loaded for a batch index is
\* the one a first load of that index gives.
C30_CompiledNetKept ==
    /\ net_value(net_store.heap, net_store.compiled) = compiled_net
    /\ net_store.last.loaded
          => net_store.last.value
                = load_data(compiled_net, net_store.last.ctx, net_store.last.batch_index)

\* batch 1 was loaded after batch 0, whose nodes the pool had
C30_Witness ==
    /\ net_store.loaded_indices = {0, 1}
    /\ net_store.last.loaded
    /\ net_store.last.batch_index = 1
    /\ pool_batches[0] # NoBatch
    /\ net_store.last.value # compiled_net

\* ------------------------------------- claims on the state of the samplers

\* C31: when an error leaves iterate while a batch is retrieved, n_batches,
\* n_sim and the sample buffer are as the last update that succeeded left them,
\* and extract_result gives what it gave then: the result over the batches
\* updated before, when there are any.
C31_ErrorLeavesState ==
    /\ [][(inf_pc' = "raised" /\ inf_pc # "raised")
          => /\ UNCHANGED <<rej_objective, rej_state, rej_rows, smc_objective, smc_state,
                            smc_populations, bo_objective, bo_state, inf_consumed>>
             /\ Rejection_extract_result(rej_objective', rej_state')
                   = Rejection_extract_result(rej_objective, rej_state)]_vars
    /\ []((inf_pc = "raised" /\ inf_method = "Rejection")
          => LET res == Rejection_extract_result(rej_objective, rej_state)
             IN /\ rej_state.n_batches = Len(inf_consumed)
                /\ rej_state.n_sim = Len(inf_consumed) * batch_size
                /\ rej_rows = [k \in 1..Len(inf_consumed) |-> inf_consumed[k].disc]
                /\ res.raised <=> Len(inf_consumed) = 0
                /\ ~res.raised
                      => /\ Len(res.d) = rej_objective.n_samples
                         /\ res.n_batches = Len(inf_consumed))

\* the retrieval of a batch failed after two batches had been merged
C31_Witness ==
    /\ inf_pc = "raised"
    /\ inf_method = "Rejection"
    /\ Len(inf_consumed) = 2
    /\ rej_state.samples.init
    /\ ~Rejection_extract_result(rej_objective, rej_state).raised

\* the objectives update never revises: Rejection without a threshold,
\* BayesianOptimization
C32_Unrevised ==
    \/ inf_method = "BO"
    \/ inf_method = "Rejection" /\ ~rej_objective.has_threshold

\* the number of batches of the objective as set_objective left it
C32_ObjectiveBatches == objective_n_batches(inf_start)

\* the updates that objective asks for
C32_Updates == IF C32_ObjectiveBatches > 0 THEN C32_ObjectiveBatches ELSE 0

C33_Acceptable ==
    Cardinality({i \in 1..Len(rej_state.samples.d) :
                   rej_state.samples.d[i] <= rej_objective.threshold})

\* C33: with a threshold given, after any update Rejection is finished exactly
\* when n_samples rows of the buffer or more are within the threshold.
C33_FinishedIffEnoughAcceptable ==
    (rej_objective.set /\ rej_objective.has_threshold /\ rej_state.n_batches >= 1)
        => (Rejection_finished(rej_objective, rej_state)
              <=> C33_Acceptable >= rej_objective.n_samples)

\* C34: a batch SMC.update hands to the Rejection of round k was prepared and
\* submitted in round k and was pending until then; the update that ends a
\* round cancels every batch still pending, so a new round starts with nothing
\* pending, and what is pending was always prepared in the round at hand.
C34_BatchesOfTheRound ==
    /\ [][(inf_method = "SMC" /\ Len(inf_consumed') = Len(inf_consumed) + 1)
          => LET c == inf_consumed'[Len(inf_consumed')]
             IN /\ c.round = smc_state.round
                /\ \E k \in 1..Len(pending_batches) :
                      /\ pending_batches[k] = [bi |-> c.bi, id |-> c.id]
                      /\ inf_prepared[k].round = c.round
                      /\ inf_prepared[k].draw = c.draw
                /\ (smc_state'.round # smc_state.round \/ inf_pc' = "done")
                      => /\ pending_batches' = <<>>
                         /\ inf_prepared' = <<>>
                         /\ client_tasks' = {}
                         /\ \A k \in 1..Len(pending_batches) :
                               pending_batches[k].id # c.id
                                 => pending_batches[k].id \in cancelled']_vars
    /\ [][(inf_method = "SMC" /\ smc_state'.round # smc_state.round)
          => Len(inf_consumed') = Len(inf_consumed) + 1]_vars
    /\ [](inf_method = "SMC"
          => /\ Len(inf_prepared) = Len(pending_batches)
             /\ \A k \in 1..Len(inf_prepared) :
                   /\ inf_prepared[k].round = smc_state.round
                   /\ inf_prepared[k].override <=> smc_state.round > 0)

\* a batch of the second round was consumed after a batch proposed from the
\* prior had been cancelled at the end of the first
C34_Witness ==
    /\ inf_method = "SMC"
    /\ smc_state.round = 1
    /\ cancelled # {}
    /\ Len(inf_consumed) >= 2
    /\ inf_consumed[Len(inf_consumed)].round = 1
    /\ inf_consumed[1].round = 0

\* C35: once n_samples simulations or more are merged, each of the first
\* n_samples rows of the buffer holds the parameter and the discrepancy of one
\* and the same received row (row k was received with parameter k and
\* discrepancy rej_rows[k]), and no received row is held twice.
C35_RowsAligned ==
    (rej_objective.set /\ rej_state.samples.init
       /\ Len(rej_rows) >= rej_objective.n_samples)
    => /\ \A j \in 1..rej_objective.n_samples :
             LET k == rej_state.samples.theta[j]
             IN /\ k \in 1..Len(rej_rows)
                /\ rej_state.samples.d[j] = rej_rows[k]
       /\ \A i, j \in 1..rej_objective.n_samples :
             i # j => rej_state.samples.theta[i] # rej_state.samples.theta[j]

\* the sort has moved rows: the row received last leads the buffer, before a
\* row of another discrepancy received earlier
C35_Witness ==
    /\ rej_objective.set
    /\ rej_objective.n_samples = 2
    /\ Len(rej_rows) = 3
    /\ rej_state.samples.init
    /\ rej_state.samples.theta[1] = 3
    /\ rej_state.samples.d[1] < rej_state.samples.d[2]
    /\ rej_state.samples.theta[2] < 3

\* the acquired points of a sequence of batches, in order
RECURSIVE C36_PointsOf(_)
C36_PointsOf(batches) ==
    IF batches = <<>> THEN <<>>
    ELSE Head(batches).points \o C36_PointsOf(Tail(batches))

\* the points the acquire calls made so far have returned, in order
C36_Acquired ==
    C36_PointsOf([c \in 1..Len(bo_acquire_calls) |->
                    [points |-> acquisition_method_acquire(bo_acquire_calls[c].n, c)]])

\* C36: in BayesianOptimization the points the acquire calls have returned
\* are, in order, the points of the batches submitted (those handed to update
\* and then those pending) followed by the buffer of acquired points: batch_size
\* of them to each batch from the acquisition, none twice and none left out;
\* acquire is called only with the buffer empty, for
\* batch_size * batches_per_acquisition points. (A run an exception has left
\* is not followed: the batch whose retrieval failed is on no list.)
C36_AcquiredInOrder ==
    /\ [][bo_acquire_calls' # bo_acquire_calls
          => /\ Len(bo_state.acquisition) = 0
             /\ Len(bo_acquire_calls') = Len(bo_acquire_calls) + 1
             /\ Len(inf_prepared') = Len(inf_prepared) + 1]_vars
    /\ []((inf_method = "BO" /\ inf_pc # "raised")
          => /\ C36_PointsOf(inf_consumed) \o C36_PointsOf(inf_prepared)
                   \o bo_state.acquisition = C36_Acquired
             /\ \A c \in 1..Len(bo_acquire_calls) :
                   bo_acquire_calls[c].n = batch_size * bo_config.batches_per_acquisition
             /\ \A k \in 1..Len(inf_prepared) :
                   Len(inf_prepared[k].points)
                     = IF inf_prepared[k].override THEN batch_size ELSE 0
             /\ \A k \in 1..Len(inf_consumed) :
                   Len(inf_consumed[k].points) \in {0, batch_size}
             /\ \A i, j \in 1..Len(C36_Acquired) :
                   i # j => C36_Acquired[i] # C36_Acquired[j])

\* two batches have been taken from one acquisition and a second acquisition
\* has been made, its first batch being pending
C36_Witness ==
    /\ inf_method = "BO"
    /\ bo_config.batches_per_acquisition = 2
    /\ Len(bo_acquire_calls) = 2
    /\ Len(inf_consumed) >= 2
    /\ inf_consumed[1].points # <<>>
    /\ inf_consumed[2].points # <<>>
    /\ inf_consumed[1].points[1].call = inf_consumed[2].points[1].call
    /\ inf_prepared # <<>>
    /\ inf_prepared[1].points[1].call = 2
    /\ bo_state.acquisition # <<>>

\* the counters of the running method: ParameterInference.state of the object
\* infer was called on
C37_State ==
    CASE inf_method = "SMC" -> smc_state
      [] inf_method = "BO" -> bo_state
      [] OTHER -> rej_state

\* the batches update has processed since the Rejection of the present round of
\* SMC got its objective
C37_OfTheRound == {k \in 1..Len(inf_consumed) : inf_consumed[k].round = smc_state.round}

\* C37: in every state of an inference run n_sim is n_batches * batch_size, and
\* n_batches is the number of batches wait_next has returned and update has
\* processed since set_objective last reset the state; the Rejection sampler a
\* round of SMC runs counts the batches of its round in the same way.
C37_CountersFollowBatches ==
    /\ C37_State.n_sim = C37_State.n_batches * batch_size
    /\ C37_State.n_batches = Cardinality(retired)
    /\ C37_State.n_batches = Len(inf_consumed)
    /\ \A k \in 1..Len(inf_consumed) : inf_consumed[k].id \notin task_failed
    /\ inf_method = "SMC"
          => /\ rej_state.n_sim = rej_state.n_batches * batch_size
             /\ rej_state.n_batches = Cardinality(C37_OfTheRound)
             /\ rej_state.n_batches = smc_state.n_batches - sum_seq(smc_populations)

\* two batches of two simulations each were returned and processed
C37_Witness ==
    /\ inf_method = "BO"
    /\ batch_size = 2
    /\ Cardinality(retired) = 2
    /\ bo_state.n_batches = 2
    /\ bo_state.n_sim = 4

\* the second round of SMC has processed one batch after the two of the first
C37_WitnessRound ==
    /\ inf_method = "SMC"
    /\ smc_state.round = 1
    /\ smc_state.n_batches = 3
    /\ rej_state.n_batches = 1

\* ---------------------------------------------- claims on the BatchHandler

\* C38: after any sequence of submit, wait_next and reset(k) calls every pending
\* index is below next_index, the pending indices are distinct and strictly
\* increasing in the order of their insertion, and num_ready, which is
\* next_index minus the number of pending batches, is not negative.
C38_PendingBelowNext ==
    /\ \A i \in 1..Len(pending_batches) : pending_batches[i].bi < next_batch_index
    /\ \A i, j \in 1..Len(pending_batches) :
          i < j => pending_indices[i] < pending_indices[j]
    /\ Cardinality({pending_indices[i] : i \in 1..Len(pending_batches)})
          = Len(pending_batches)
    /\ num_ready = next_batch_index - Len(pending_batches)
    /\ num_ready >= 0

\* reset(k) has left a pending index below k behind and a batch was
\* submitted at k since
C38_Witness ==
    /\ alloc_base > 0
    /\ Len(pending_batches) = 2
    /\ pending_indices[1] < alloc_base
    /\ pending_indices[2] = alloc_base
    /\ num_ready > 0

\* a reset that raised has left a gap in the pending indices
C38_WitnessGap ==
    /\ last_op.op = "reset"
    /\ last_op.raised
    /\ last_op.k >= 0
    /\ pending_indices = <<0, 2>>
    /\ next_batch_index = 3
====
